---- MODULE Spec2Model ----
(***************************************************************************)
(* Model of the splitter-backend allocation engine (POST /sessions/finalize *)
(* in src/src/routes/sessions.ts and its earlier revision in                *)
(* src/src/routes/uploads.ts), of the settlement store it writes            *)
(* (SessionHistoryEntry), and of the receipt parser's provider chain        *)
(* (src/src/services/receiptParser.ts).                                     *)
(*                                                                          *)
(* Money.  The code computes in JavaScript numbers and rounds with          *)
(* round2(n) = Math.round(n * 100) / 100.  The model keeps every amount as  *)
(* an exact decimal: an integer count of mills (1/1000 of the currency      *)
(* unit), or a fraction num/den of mills before rounding.  Math.round       *)
(* rounds half up (towards +infinity), which is what Round2 does.           *)
(*                                                                          *)
(* The code's numbers are IEEE-754 doubles, so n * 100 carries a            *)
(* representation error: 0.015 * 100 is 1.5, but (0.015 - 0.01) * 100 is    *)
(* 0.49999999999999994 and 1.005 * 100 is 100.49999999999999.  The error    *)
(* is far below a mill, so it changes the result of round2 only when the    *)
(* decimal value of n lies exactly on half a cent; there the double lies on *)
(* either side of the half.  Which side is not derivable in the model: the  *)
(* variable fp holds the operand expressions (unit price, multiplier,       *)
(* operation) whose double, if the decimal is such a tie, falls below the   *)
(* half.  It is chosen initially and never changes: double arithmetic is    *)
(* deterministic.  Sums of whole cents (the totals) are never ties.         *)
(*                                                                          *)
(* Optional fields.  A field that may be absent (undefined / null) is a     *)
(* sequence of length 0 (absent) or 1 (present).                            *)
(*                                                                          *)
(* Callers are authenticated users: the 401 of a request without a user is  *)
(* the authentication middleware's and is left out.                         *)
(***************************************************************************)
EXTENDS Integers, Sequences, FiniteSets, TLC

VARIABLES
    history,     \* rows of table SessionHistoryEntry
    nextRowId,   \* the table's SERIAL id
    now,         \* the clock read by new Date() / NOW()
    req,         \* the request handled last
    res,         \* the response sent last
    fp,          \* operand expressions whose tie falls below the half
    revision,    \* the revision of the finalize handler that is deployed
    env,         \* the process environment: GEMINI_API_KEY set, DEBUG_PARSE
    cachedModel, \* receiptParser.ts: module-level cachedModel
    parse,       \* the parseReceipt calls, by caller
    receiptParse, \* rows of table ReceiptParse
    receiptLine, \* rows of table ReceiptLine
    receiptItem, \* rows of table ReceiptItem
    handlers     \* the requests in flight to the routes that are modelled
                 \* await by await, by request

vars ==
    <<history, nextRowId, now, req, res, fp, revision, env, cachedModel, parse,
      receiptParse, receiptLine, receiptItem, handlers>>

(***************************************************************************)
(* Bounds of the model.                                                     *)
(***************************************************************************)
MaxQty == 3
MaxAssignees == 3
MaxClock == 3
MaxCandidates == 3
MaxRequests == 2
MaxSnapshots == 101

(***************************************************************************)
(* Optional values.                                                         *)
(***************************************************************************)
None == <<>>
Some(v) == <<v>>
Has(o) == Len(o) > 0
Val(o) == o[1]

RECURSIVE SumSeq(_)
SumSeq(s) == IF s = <<>> THEN 0 ELSE Head(s) + SumSeq(Tail(s))

SeqRange(s) == {s[i] : i \in 1..Len(s)}

(***************************************************************************)
(* Numbers.  A JavaScript number that need not be a whole number of mills   *)
(* is a fraction [nan, num, den] with den > 0; NaN has nan = TRUE.          *)
(***************************************************************************)
NaN == [nan |-> TRUE, num |-> 0, den |-> 1]
Num(n, d) == IF d > 0 THEN [nan |-> FALSE, num |-> n, den |-> d]
             ELSE [nan |-> FALSE, num |-> 0 - n, den |-> 0 - d]

\* round2(n) = Math.round(n * 100) / 100 for n = num/den mills, den > 0, with
\* n * 100 exact.  The result is a whole number of cents, given in mills.
Round2(num, den) == 10 * ((num + 5 * den) \div (10 * den))

\* n = num/den mills lies exactly on half a cent.
IsTie(num, den) == (num + 5 * den) % (10 * den) = 0

\* round2 of an operand computed in doubles: at a tie that falls below the
\* half (low) the result is the cent below.
Round2Fp(num, den, low) ==
    IF low /\ IsTie(num, den) THEN Round2(num, den) - 10 ELSE Round2(num, den)

\* The operand expressions of the allocation code, and their decimal values:
\*   u * unitPrice                 Prod(unit, u)
\*   unitPrice * qty * ratio       Ratio(unit, qty, n), ratio = 1 / n
\*   unitPrice * qty - allocated   Rest(unit, qty, allocated)
\* x - 0 is x in doubles, so the remainder with nothing allocated is the
\* product itself.
Prod(unit, m) ==
    [num |-> unit.num, den |-> unit.den, mult |-> m, op |-> "prod", n |-> 1]
Ratio(unit, qty, n) ==
    [num |-> unit.num, den |-> unit.den, mult |-> qty, op |-> "ratio", n |-> n]
Rest(unit, qty, allocated) ==
    IF allocated = 0 THEN Prod(unit, qty)
    ELSE [num |-> unit.num, den |-> unit.den, mult |-> qty, op |-> "rest", n |-> 1]

(***************************************************************************)
(* POST /sessions/finalize: the request.                                    *)
(*   request     [caller, sessionId, sessionName, participants, items]      *)
(*   participant [uniqueId, username]          (username "" when missing)   *)
(*   item        [isObject, id, name, price, unitPrice, totalPrice,          *)
(*                quantity, kind, splitMode, perPersonCount, assignedTo]    *)
(* price, unitPrice and totalPrice are optional amounts in mills; kind is   *)
(* an optional string; splitMode is "" when missing; perPersonCount is an   *)
(* optional sequence of entries [pid, units] in the object's key order;     *)
(* assignedTo is an optional sequence of participant ids.                   *)
(***************************************************************************)

\* pList and participantIndex: the roster as given, and the ids it indexes.
PList(participants) ==
    [k \in 1..Len(participants) |->
        [uniqueId |-> participants[k].uniqueId,
         username |-> IF participants[k].username # ""
                      THEN participants[k].username
                      ELSE participants[k].uniqueId]]

ParticipantIndex(pList) == {pList[k].uniqueId : k \in 1..Len(pList)}

\* unitPrice = Number(raw.price ?? raw.unitPrice ??
\*             (raw.totalPrice && quantity ? totalPrice / quantity : NaN))
UnitPriceOf(raw) ==
    IF Has(raw.price) THEN Num(Val(raw.price), 1)
    ELSE IF Has(raw.unitPrice) THEN Num(Val(raw.unitPrice), 1)
    ELSE IF Has(raw.totalPrice) /\ Val(raw.totalPrice) # 0 /\ raw.quantity # 0
         THEN Num(Val(raw.totalPrice), raw.quantity)
         ELSE NaN

\* splitMode, inferred when missing.
SplitModeOf(raw) ==
    IF raw.splitMode # "" THEN raw.splitMode
    ELSE IF Has(raw.perPersonCount) THEN "count" ELSE "equal"

\* !id || !name || !Number.isFinite(unitPrice) || !Number.isFinite(qty) || qty <= 0
InvalidItemFields(raw) ==
    raw.id = "" \/ raw.name = "" \/ UnitPriceOf(raw).nan \/ raw.quantity <= 0

\* The validation loop over Object.entries(perPersonCount): the first entry
\* that names an unknown participant or has negative units ends it.
RECURSIVE CountCheck(_, _, _, _)
CountCheck(counts, index, k, sumUnits) ==
    IF k > Len(counts) THEN [error |-> "", sumUnits |-> sumUnits]
    ELSE IF counts[k].pid \notin index
         THEN [error |-> "Unknown participant in perPersonCount",
               sumUnits |-> sumUnits]
    ELSE IF counts[k].units < 0
         THEN [error |-> "Negative units", sumUnits |-> sumUnits]
    ELSE CountCheck(counts, index, k + 1, sumUnits + counts[k].units)

\* The unit-sum test accepting a sum below the quantity.
UnitSumMismatchBelowOk(sumUnits, qty) == sumUnits > qty

\* if (sumUnits !== qty) return 400
UnitSumMismatch(sumUnits, qty) == sumUnits # qty

\* The allocations of a count-split item: round2(u * unitPrice) each.
CountAllocs(id, counts, unit, low) ==
    [k \in 1..Len(counts) |->
        [itemId |-> id,
         participantId |-> counts[k].pid,
         shareUnits |-> counts[k].units,
         shareAmount |-> Round2Fp(counts[k].units * unit.num, unit.den,
                                  Prod(unit, counts[k].units) \in low)]]

\* The raw share of assignee idx of n: unitPrice * qty * ratio, and for the
\* last one unitPrice * qty - allocated.
EqualShare(unit, qty, n, idx, allocated) ==
    IF idx = n
    THEN [num |-> unit.num * qty - allocated * unit.den, den |-> unit.den,
          key |-> Rest(unit, qty, allocated)]
    ELSE [num |-> unit.num * qty, den |-> unit.den * n,
          key |-> Ratio(unit, qty, n)]

\* valid.forEach((pid, idx) => ...): the allocations of an equal-split item.
RECURSIVE EqualAllocs(_, _, _, _, _, _, _)
EqualAllocs(id, valid, unit, qty, idx, allocated, low) ==
    IF idx > Len(valid) THEN <<>>
    ELSE LET raw == EqualShare(unit, qty, Len(valid), idx, allocated)
             shareAmount == Round2Fp(raw.num, raw.den, raw.key \in low)
         IN  <<[itemId |-> id,
                participantId |-> valid[idx],
                shareRatio |-> [num |-> 1, den |-> Len(valid)],
                shareAmount |-> shareAmount]>>
             \o EqualAllocs(id, valid, unit, qty, idx + 1,
                            Round2(allocated + shareAmount, 1), low)

\* The filter that lets every id through.
ValidAssigneesAll(assigned, index) == assigned

\* assigned.filter((pid) => participantIndex.has(pid))
ValidAssignees(assigned, index) == SelectSeq(assigned, LAMBDA pid : pid \in index)

\* The item loop (for (const raw of items)): the error of the first item
\* that fails, with allocs and itemMeta as they stand when the loop ends.
RECURSIVE ProcessItems(_, _, _, _, _, _)
ProcessItems(items, index, i, allocs, itemMeta, low) ==
    IF i > Len(items)
    THEN [error |-> "", allocs |-> allocs, itemMeta |-> itemMeta]
    ELSE
    LET raw == items[i]
        Fail(e) == [error |-> e, allocs |-> allocs, itemMeta |-> itemMeta]
    IN
    IF ~raw.isObject
    THEN ProcessItems(items, index, i + 1, allocs, itemMeta, low)
    ELSE
    LET unitPrice == UnitPriceOf(raw)
        qty == raw.quantity
        splitMode == SplitModeOf(raw)
        meta == (raw.id :> [name |-> raw.name, kind |-> raw.kind]) @@ itemMeta
    IN
    IF InvalidItemFields(raw) THEN Fail("Invalid item fields")
    ELSE IF splitMode = "count" THEN
        LET counts == IF Has(raw.perPersonCount) THEN Val(raw.perPersonCount)
                      ELSE <<>>
            chk == CountCheck(counts, index, 1, 0)
        IN  IF chk.error # "" THEN Fail(chk.error)
            ELSE IF UnitSumMismatch(chk.sumUnits, qty)
                 THEN Fail("Sum of perPersonCount must equal quantity")
            ELSE ProcessItems(items, index, i + 1,
                              allocs \o CountAllocs(raw.id, counts, unitPrice,
                                                    low),
                              meta, low)
    ELSE IF splitMode = "equal" THEN
        LET assigned == IF Has(raw.assignedTo) THEN Val(raw.assignedTo) ELSE <<>>
            valid == ValidAssignees(assigned, index)
        IN  IF Len(assigned) = 0 THEN Fail("assignedTo required")
            ELSE IF Len(valid) # Len(assigned)
                 THEN Fail("Unknown participant in assignedTo")
            ELSE ProcessItems(items, index, i + 1,
                              allocs \o EqualAllocs(raw.id, valid, unitPrice,
                                                    qty, 1, 0, low),
                              meta, low)
    ELSE Fail("Unsupported splitMode")

\* "Derive totals from allocations": byItemMap (in insertion order) and
\* byParticipantTotals, rounded at every accumulation step.
RECURSIVE DeriveTotals(_, _, _, _, _)
DeriveTotals(allocs, itemMeta, k, byItem, byParticipantTotals) ==
    IF k > Len(allocs)
    THEN [byItem |-> byItem, byParticipantTotals |-> byParticipantTotals]
    ELSE
    LET a == allocs[k]
        known == \E j \in 1..Len(byItem) : byItem[j].itemId = a.itemId
        name == IF a.itemId \in DOMAIN itemMeta /\ itemMeta[a.itemId].name # ""
                THEN itemMeta[a.itemId].name ELSE a.itemId
        kind == IF a.itemId \in DOMAIN itemMeta THEN itemMeta[a.itemId].kind
                ELSE None
        withEntry == IF known THEN byItem
                     ELSE Append(byItem, [itemId |-> a.itemId, name |-> name,
                                          total |-> 0, kind |-> kind])
        added == [j \in 1..Len(withEntry) |->
                    IF withEntry[j].itemId = a.itemId
                    THEN [withEntry[j] EXCEPT
                            !.total = Round2(@ + a.shareAmount, 1)]
                    ELSE withEntry[j]]
        pid == a.participantId
        prev == IF pid \in DOMAIN byParticipantTotals
                THEN byParticipantTotals[pid] ELSE 0
    IN  DeriveTotals(allocs, itemMeta, k + 1, added,
                     (pid :> Round2(prev + a.shareAmount, 1))
                        @@ byParticipantTotals)

\* byParticipant = pList.map(p => ({..., amountOwed: round2(totals.get(id) || 0)}))
ByParticipant(pList, totals) ==
    [k \in 1..Len(pList) |->
        [uniqueId |-> pList[k].uniqueId,
         username |-> pList[k].username,
         amountOwed |-> Round2(IF pList[k].uniqueId \in DOMAIN totals
                               THEN totals[pList[k].uniqueId] ELSE 0, 1)]]

\* totals{grandTotal, byParticipant, byItem} of an allocation list.
Totals(pList, allocs, itemMeta) ==
    LET d == DeriveTotals(allocs, itemMeta, 1, <<>>, <<>>)
    IN  [grandTotal |->
            Round2(SumSeq([j \in 1..Len(d.byItem) |-> d.byItem[j].total]), 1),
         byParticipant |-> ByParticipant(pList, d.byParticipantTotals),
         byItem |-> d.byItem]

(***************************************************************************)
(* The tables the handler reads and writes.                                 *)
(***************************************************************************)

\* The two revisions of the finalize handler in the sources, named after
\* their files.  A deployment runs one of them.
Revisions == {"sessions", "uploads"}

\* Table Session: the rows that exist, by id.  Sessions 1 and 3 were created
\* by user 1; there is no session 2.
SessionTable ==
    (1 :> [creatorId |-> 1, createdAt |-> 0, receiptImageUrl |-> Some("url")])
    @@ (3 :> [creatorId |-> 1, createdAt |-> 0, receiptImageUrl |-> Some("url")])

\* prisma.sessionHistoryEntry.findUnique({ where: { sessionId } })
RowsOf(rows, sessionId) == {row \in rows : row.sessionId = sessionId}

\* prisma.sessionHistoryEntry.upsert({ where: { sessionId }, create, update }):
\* the row of the session takes the update's fields, or a new row is inserted.
Upsert(rows, id, sessionId, create, update) ==
    IF RowsOf(rows, sessionId) # {}
    THEN {IF row.sessionId = sessionId THEN update @@ row ELSE row : row \in rows}
    ELSE rows \cup {[id |-> id, sessionId |-> sessionId] @@ create}

(***************************************************************************)
(* POST /sessions/finalize.                                                 *)
(***************************************************************************)
NoResponse == [status |-> 0, error |-> "", body |-> None]
Error(status, message) == [status |-> status, error |-> message, body |-> None]

\* The checks ahead of the item loop, session lookup and owner check
\* included, with the owner check left out.
PreCheckNoOwner(r) ==
    IF ~Has(r.sessionId) THEN Error(400, "sessionId required")
    ELSE IF Len(r.participants) = 0 THEN Error(400, "participants array required")
    ELSE IF Len(r.items) = 0 THEN Error(400, "items array required")
    ELSE IF Val(r.sessionId) \notin DOMAIN SessionTable
         THEN Error(404, "Session not found")
    ELSE NoResponse

\* The checks ahead of the item loop: body shape, session lookup, owner.
PreCheck(r) ==
    IF ~Has(r.sessionId) THEN Error(400, "sessionId required")
    ELSE IF Len(r.participants) = 0 THEN Error(400, "participants array required")
    ELSE IF Len(r.items) = 0 THEN Error(400, "items array required")
    ELSE IF Val(r.sessionId) \notin DOMAIN SessionTable
         THEN Error(404, "Session not found")
    ELSE IF SessionTable[Val(r.sessionId)].creatorId # r.caller
         THEN Error(403, "Forbidden")
    ELSE NoResponse

\* The response to a failed item loop that leaks what was allocated so far.
LoopErrorPartial(loop) ==
    [status |-> 400, error |-> loop.error,
     body |-> Some([allocations |-> loop.allocs])]

\* return res.status(400).json({ error })
LoopError(loop) == Error(400, loop.error)

\* The handler up to the persistence step: an error response, or the 200
\* response carrying responsePayload (finalizedAt is the clock value t).
Computed(r, t, low) ==
    LET pre == PreCheck(r) IN
    IF pre.status # 0 THEN pre
    ELSE
    LET pList == PList(r.participants)
        loop == ProcessItems(r.items, ParticipantIndex(pList), 1, <<>>, <<>>,
                             low)
    IN
    IF loop.error # "" THEN LoopError(loop)
    ELSE [status |-> 200, error |-> "",
          body |-> Some([sessionId |-> Val(r.sessionId),
                         sessionName |-> r.sessionName,
                         status |-> "finalized",
                         createdAt |-> SessionTable[Val(r.sessionId)].createdAt,
                         finalizedAt |-> t,
                         totals |-> Totals(pList, loop.allocs, loop.itemMeta),
                         allocations |-> loop.allocs])]

\* The operand expressions of a request's allocation whose decimal value is
\* a tie: the only ones on which the doubles' error shows.
TieOperands(r) ==
    IF Computed(r, 0, {}).status # 200 THEN {}
    ELSE
    LET perItem(raw) ==
            LET unit == UnitPriceOf(raw)
                n == IF Has(raw.assignedTo) THEN Len(Val(raw.assignedTo)) ELSE 0
                counts == IF Has(raw.perPersonCount) THEN Val(raw.perPersonCount)
                          ELSE <<>>
            IN  IF SplitModeOf(raw) = "count"
                THEN {Prod(unit, counts[k].units) : k \in 1..Len(counts)}
                     \cup {Prod(unit, raw.quantity)}
                ELSE {Prod(unit, raw.quantity), Ratio(unit, raw.quantity, n),
                      Rest(unit, raw.quantity, 1)}
        all == UNION {perItem(r.items[i]) :
                        i \in {j \in 1..Len(r.items) : r.items[j].isObject}}
    IN  {k \in all : IsTie(k.num * k.mult, k.den * k.n)}

\* The fields written by the upsert (the same in create and update, but for
\* sessionId and creatorId).
SnapshotFields(r, payload) ==
    [sessionName |-> r.sessionName,
     payload |-> payload,
     participantUniqueIds |->
        {payload.totals.byParticipant[k].uniqueId :
            k \in 1..Len(payload.totals.byParticipant)},
     grandTotal |-> payload.totals.grandTotal,
     finalizedAt |-> payload.finalizedAt]

\* POST /finalize that answers with the snapshot stored for the session when
\* there is one, and allocates only when there is none.
FinalizeReplaysStored(r) ==
    \E dbOk \in BOOLEAN :
        LET out == Computed(r, now + 1, fp) IN
        /\ revision = "sessions"
        /\ req' = r
        /\ IF out.status # 200
           THEN /\ res' = out
                /\ UNCHANGED <<history, nextRowId, now>>
           ELSE /\ now < MaxClock
                /\ now' = now + 1
                /\ IF RowsOf(history, Val(r.sessionId)) # {}
                   THEN /\ res' = [out EXCEPT !.body =
                                     Some((CHOOSE row \in RowsOf(history, Val(r.sessionId)) :
                                              TRUE).payload)]
                        /\ UNCHANGED <<history, nextRowId>>
                   ELSE IF dbOk
                   THEN LET fields == SnapshotFields(r, Val(out.body))
                            sid == Val(r.sessionId)
                        IN  /\ history' =
                                 Upsert(history, nextRowId, sid,
                                        [creatorId |-> SessionTable[sid].creatorId]
                                            @@ fields,
                                        fields)
                            /\ nextRowId' = nextRowId + 1
                            /\ res' = out
                   ELSE /\ res' = Error(500, "Server error")
                        /\ UNCHANGED <<history, nextRowId>>
        /\ UNCHANGED <<fp, revision, env, cachedModel, parse, receiptParse, handlers,
                   receiptLine, receiptItem>>

\* sessions.ts POST /finalize: validate, allocate, derive the totals, upsert
\* the snapshot, answer.  A failed write is answered with 500.
Finalize(r) ==
    \E dbOk \in BOOLEAN :
        LET out == Computed(r, now + 1, fp) IN
        /\ revision = "sessions"
        /\ req' = r
        /\ IF out.status # 200
           THEN /\ res' = out
                /\ UNCHANGED <<history, nextRowId, now>>
           ELSE /\ now < MaxClock
                /\ now' = now + 1
                /\ IF dbOk
                   THEN LET fields == SnapshotFields(r, Val(out.body))
                            sid == Val(r.sessionId)
                        IN  /\ history' =
                                 Upsert(history, nextRowId, sid,
                                        [creatorId |-> SessionTable[sid].creatorId]
                                            @@ fields,
                                        fields)
                            /\ nextRowId' = IF RowsOf(history, sid) = {}
                                            THEN nextRowId + 1 ELSE nextRowId
                            /\ res' = out
                   ELSE /\ res' = Error(500, "Server error")
                        /\ UNCHANGED <<history, nextRowId>>
        /\ UNCHANGED <<fp, revision, env, cachedModel, parse, receiptParse, handlers,
                   receiptLine, receiptItem>>

\* uploads.ts POST /finalize (the earlier revision): the same validation and
\* allocation; the snapshot is created only when the session has none, and a
\* failed write is logged and the 200 response sent all the same.
FinalizeSkipExisting(r) ==
    \E dbOk \in BOOLEAN :
        LET out == Computed(r, now + 1, fp) IN
        /\ revision = "uploads"
        /\ req' = r
        /\ IF out.status # 200
           THEN /\ res' = out
                /\ UNCHANGED <<history, nextRowId, now>>
           ELSE LET payload == Val(out.body)
                    sid == Val(r.sessionId)
                    pList == PList(r.participants)
                    body == [sessionId |-> sid,
                             sessionName |-> r.sessionName,
                             status |-> "finalized",
                             createdAt |-> SessionTable[sid].createdAt,
                             totals |-> payload.totals,
                             allocations |-> payload.allocations,
                             participants |-> pList]
                IN  /\ now < MaxClock
                    /\ now' = now + 1
                    /\ res' = [status |-> 200, error |-> "", body |-> Some(body)]
                    /\ IF dbOk /\ RowsOf(history, sid) = {}
                       THEN /\ history' = history \cup
                                {[id |-> nextRowId,
                                  sessionId |-> sid,
                                  sessionName |-> r.sessionName,
                                  status |-> "finalized",
                                  ownerUserId |-> SessionTable[sid].creatorId,
                                  participantUniqueIds |->
                                     [k \in 1..Len(pList) |-> pList[k].uniqueId],
                                  participants |-> pList,
                                  allocations |-> payload.allocations,
                                  totals |-> payload.totals,
                                  createdAt |-> now + 1]}
                            /\ nextRowId' = nextRowId + 1
                       ELSE UNCHANGED <<history, nextRowId>>
        /\ UNCHANGED <<fp, revision, env, cachedModel, parse, receiptParse, handlers,
                   receiptLine, receiptItem>>

(***************************************************************************)
(* The receipt parser (src/src/services/receiptParser.ts).  A string the    *)
(* code inspects by character (a currency token) is a sequence of           *)
(* characters; a character outside ASCII goes by its name.  A model's       *)
(* output text is what the decoding finds in it: a fence or none around a   *)
(* content that has no braces, is not JSON, or is an object.  Durations     *)
(* and text lengths are left out of the trace entries.                      *)
(***************************************************************************)
\* MODEL_CANDIDATES with the default environment, cut to MaxCandidates.
MODEL_CANDIDATES ==
    SubSeq(<<"gemini-2.5-flash", "gemini-2.5-flash-lite", "gemini-2.5-pro",
             "gemini-2.0-flash", "gemini-2.0-flash-001", "gemini-2.0-flash-lite",
             "gemini-2.0-flash-lite-001", "gemini-1.5-pro", "gemini-1.5-flash">>,
           1, MaxCandidates)

DEFAULT_CURRENCY_CODE == <<"U", "N", "K", "N", "O", "W", "N">>

LowerLetters ==
    <<"a", "b", "c", "d", "e", "f", "g", "h", "i", "j", "k", "l", "m",
      "n", "o", "p", "q", "r", "s", "t", "u", "v", "w", "x", "y", "z",
      "cyr_er", "cyr_u", "cyr_be">>

UpperLetters ==
    <<"A", "B", "C", "D", "E", "F", "G", "H", "I", "J", "K", "L", "M",
      "N", "O", "P", "Q", "R", "S", "T", "U", "V", "W", "X", "Y", "Z",
      "CYR_ER", "CYR_U", "CYR_BE">>

AsciiUpper == {UpperLetters[i] : i \in 1..26}
AsciiLetters == AsciiUpper \cup {LowerLetters[i] : i \in 1..26}

\* String.prototype.toUpperCase
toUpperCase(str) ==
    [i \in 1..Len(str) |->
        IF \E k \in 1..Len(LowerLetters) : LowerLetters[k] = str[i]
        THEN UpperLetters[CHOOSE k \in 1..Len(LowerLetters) : LowerLetters[k] = str[i]]
        ELSE str[i]]

\* String.prototype.trim
RECURSIVE trim(_)
trim(str) ==
    IF str = <<>> THEN str
    ELSE IF Head(str) = " " THEN trim(Tail(str))
    ELSE IF str[Len(str)] = " " THEN trim(SubSeq(str, 1, Len(str) - 1))
    ELSE str

SYMBOL_TO_ISO ==
    <<<< <<"$">>, <<"U", "S", "D">> >>,
      << <<"U", "S", "D">>, <<"U", "S", "D">> >>,
      << <<"U", "S", "$">>, <<"U", "S", "D">> >>,
      << <<"EURO_SIGN">>, <<"E", "U", "R">> >>,
      << <<"E", "U", "R">>, <<"E", "U", "R">> >>,
      << <<"POUND_SIGN">>, <<"G", "B", "P">> >>,
      << <<"G", "B", "P">>, <<"G", "B", "P">> >>,
      << <<"YEN_SIGN">>, <<"J", "P", "Y">> >>,
      << <<"J", "P", "Y">>, <<"J", "P", "Y">> >>,
      << <<"CJK_YEN">>, <<"J", "P", "Y">> >>,
      << <<"RUBLE_SIGN">>, <<"R", "U", "B">> >>,
      << <<"R", "U", "B">>, <<"R", "U", "B">> >>,
      << <<"R", "U", "R">>, <<"R", "U", "B">> >>,
      << <<"CYR_ER", "CYR_U", "CYR_BE">>, <<"R", "U", "B">> >>,
      << <<"CYR_ER", "CYR_U", "CYR_BE", ".">>, <<"R", "U", "B">> >>,
      << <<"HRYVNIA_SIGN">>, <<"U", "A", "H">> >>,
      << <<"U", "A", "H">>, <<"U", "A", "H">> >>,
      << <<"WON_SIGN">>, <<"K", "R", "W">> >>,
      << <<"K", "R", "W">>, <<"K", "R", "W">> >>,
      << <<"NAIRA_SIGN">>, <<"N", "G", "N">> >>,
      << <<"N", "G", "N">>, <<"N", "G", "N">> >>,
      << <<"RUPEE_SIGN">>, <<"I", "N", "R">> >>,
      << <<"I", "N", "R">>, <<"I", "N", "R">> >>,
      << <<"LIRA_SIGN">>, <<"T", "R", "Y">> >>,
      << <<"T", "R", "Y">>, <<"T", "R", "Y">> >>,
      << <<"C", "$">>, <<"C", "A", "D">> >>,
      << <<"C", "A", "D">>, <<"C", "A", "D">> >>,
      << <<"A", "$">>, <<"A", "U", "D">> >>,
      << <<"A", "U", "D">>, <<"A", "U", "D">> >>,
      << <<"C", "H", "F">>, <<"C", "H", "F">> >>,
      << <<"H", "K", "$">>, <<"H", "K", "D">> >>,
      << <<"H", "K", "D">>, <<"H", "K", "D">> >>,
      << <<"S", "G", "$">>, <<"S", "G", "D">> >>,
      << <<"S", "G", "D">>, <<"S", "G", "D">> >>,
      << <<"Z", "A", "R">>, <<"Z", "A", "R">> >> >>

\* SYMBOL_TO_ISO[key], undefined as None.
IsoOf(key) ==
    IF \E k \in 1..Len(SYMBOL_TO_ISO) : SYMBOL_TO_ISO[k][1] = key
    THEN Some(SYMBOL_TO_ISO[CHOOSE k \in 1..Len(SYMBOL_TO_ISO) :
                                SYMBOL_TO_ISO[k][1] = key][2])
    ELSE None

\* /^[A-Z]{3}$/.test(str)
IsThreeLetterCode(str) == Len(str) = 3 /\ SeqRange(str) \subseteq AsciiUpper

\* normalizeCurrencyCode that looks the value up as it is written only,
\* without its upper-case form.
normalizeCurrencyCodeCaseSensitive(value) ==
    IF ~Has(value) THEN None
    ELSE
    LET trimmed == trim(Val(value))
        asciiUpper ==
            toUpperCase(SelectSeq(trimmed, LAMBDA c : c \in AsciiLetters))
    IN  IF trimmed = <<>> THEN None
        ELSE IF Has(IsoOf(trimmed)) THEN IsoOf(trimmed)
        ELSE IF IsThreeLetterCode(trimmed) THEN Some(trimmed)
        ELSE IF Has(IsoOf(asciiUpper)) THEN IsoOf(asciiUpper)
        ELSE IF IsThreeLetterCode(asciiUpper) THEN Some(asciiUpper)
        ELSE IF Has(IsoOf(<<trimmed[1]>>)) THEN IsoOf(<<trimmed[1]>>)
        ELSE IF Has(IsoOf(<<trimmed[Len(trimmed)]>>))
             THEN IsoOf(<<trimmed[Len(trimmed)]>>)
        ELSE None

\* normalizeCurrencyCode: the ISO code of a value, null as None.  A value
\* that is not a string is None.
normalizeCurrencyCode(value) ==
    IF ~Has(value) THEN None
    ELSE
    LET trimmed == trim(Val(value))
        directUpper == toUpperCase(trimmed)
        asciiUpper ==
            toUpperCase(SelectSeq(trimmed, LAMBDA c : c \in AsciiLetters))
    IN  IF trimmed = <<>> THEN None
        ELSE IF Has(IsoOf(trimmed)) THEN IsoOf(trimmed)
        ELSE IF Has(IsoOf(directUpper)) THEN IsoOf(directUpper)
        ELSE IF IsThreeLetterCode(directUpper) THEN Some(directUpper)
        ELSE IF Has(IsoOf(asciiUpper)) THEN IsoOf(asciiUpper)
        ELSE IF IsThreeLetterCode(asciiUpper) THEN Some(asciiUpper)
        ELSE IF Has(IsoOf(<<trimmed[1]>>)) THEN IsoOf(<<trimmed[1]>>)
        ELSE IF Has(IsoOf(<<trimmed[Len(trimmed)]>>))
             THEN IsoOf(<<trimmed[Len(trimmed)]>>)
        ELSE None

\* A decoded model output, with every optional field absent.
NoRawSummary ==
    [grandTotal |-> None, currency |-> None, currencyCode |-> None,
     currency_code |-> None, isoCurrency |-> None]

NoRawItem ==
    [isNull |-> FALSE, id |-> None, name |-> None, quantity |-> None,
     unitPrice |-> None, price |-> None, totalPrice |-> None, kind |-> None,
     currency |-> None, currencyCode |-> None, currency_code |-> None]

NoRaw ==
    [items |-> None, summary |-> None,
     currency |-> None, currencyCode |-> None, currency_code |-> None]

\* The candidate fields of one item: item?.currency, item?.currencyCode,
\* item?.currency_code.
ItemCurrencyFields(item) ==
    IF item.isNull THEN <<None, None, None>>
    ELSE <<item.currency, item.currencyCode, item.currency_code>>

RECURSIVE ItemsCurrencyFields(_)
ItemsCurrencyFields(items) ==
    IF items = <<>> THEN <<>>
    ELSE ItemCurrencyFields(Head(items)) \o ItemsCurrencyFields(Tail(items))

\* extractCurrencyCode: the first candidate field that normalizes, or
\* DEFAULT_CURRENCY_CODE.
extractCurrencyCode(raw) ==
    LET summary == IF Has(raw.summary) THEN Val(raw.summary) ELSE NoRawSummary
        candidates ==
            <<summary.currency, summary.currencyCode, summary.currency_code,
              summary.isoCurrency,
              raw.currency, raw.currencyCode, raw.currency_code>>
            \o (IF Has(raw.items) THEN ItemsCurrencyFields(Val(raw.items))
                ELSE <<>>)
        hits == {k \in 1..Len(candidates) :
                    Has(normalizeCurrencyCode(candidates[k]))}
    IN  IF hits = {} THEN DEFAULT_CURRENCY_CODE
        ELSE Val(normalizeCurrencyCode(
                    candidates[CHOOSE k \in hits : \A j \in hits : k <= j]))

\* unwrapMarkdown: the inside of the fence, or the text, trimmed.
unwrapMarkdown(t) == t.content

\* One element of raw.items.map(...): the normalized item at index idx
\* (from 0).  Amounts are mills; round2 as in finalize.
NormalizedItem(it, idx, low) ==
    LET q == IF Has(it.quantity) /\ Val(it.quantity) # 0
             THEN Val(it.quantity) ELSE 1
        unit == IF Has(it.unitPrice) THEN Val(it.unitPrice)
                ELSE IF Has(it.price) THEN Val(it.price) ELSE 0
        given == Has(it.totalPrice)
        total == IF given THEN Val(it.totalPrice) ELSE unit * q
    IN  [id |-> IF Has(it.id) THEN Val(it.id) ELSE ToString(idx + 1),
         name |-> IF Has(it.name) THEN Val(it.name) ELSE "Item",
         unitPrice |-> Round2Fp(unit, 1, Prod(Num(unit, 1), 1) \in low),
         quantity |-> q,
         totalPrice |->
            Round2Fp(total, 1,
                     (IF given THEN Prod(Num(total, 1), 1)
                      ELSE Prod(Num(unit, 1), q)) \in low),
         kind |-> IF Has(it.kind) /\ Val(it.kind) # "" THEN it.kind ELSE None]

NotOk == [ok |-> FALSE, data |-> None]

\* safeParseJson that does not ask for a summary.
safeParseJsonNoSummary(text, low) ==
    LET cleaned == unwrapMarkdown(text)
        raw == cleaned.raw
    IN  IF cleaned.shape # "object" THEN NotOk
        ELSE IF ~Has(raw.items) THEN NotOk
        ELSE IF \E k \in 1..Len(Val(raw.items)) : Val(raw.items)[k].isNull
             THEN NotOk
        ELSE LET items == [k \in 1..Len(Val(raw.items)) |->
                              NormalizedItem(Val(raw.items)[k], k - 1, low)]
             IN  [ok |-> TRUE,
                  data |-> Some([items |-> items,
                                 summary |-> [grandTotal |-> 0,
                                              currency |-> extractCurrencyCode(raw)],
                                 source |-> "gemini"])]

\* safeParseJson that takes grandTotal from the model's summary when the
\* model gives one.
safeParseJsonSummaryTrusted(text, low) ==
    LET cleaned == unwrapMarkdown(text)
        raw == cleaned.raw
    IN  IF cleaned.shape # "object" THEN NotOk
        ELSE IF ~Has(raw.items) \/ ~Has(raw.summary) THEN NotOk
        ELSE IF \E k \in 1..Len(Val(raw.items)) : Val(raw.items)[k].isNull
             THEN NotOk
        ELSE LET items == [k \in 1..Len(Val(raw.items)) |->
                              NormalizedItem(Val(raw.items)[k], k - 1, low)]
                 grandTotal ==
                    IF Has(Val(raw.summary).grandTotal)
                    THEN Round2(Val(Val(raw.summary).grandTotal), 1)
                    ELSE Round2(SumSeq([k \in 1..Len(items) |->
                                            items[k].totalPrice]), 1)
             IN  [ok |-> TRUE,
                  data |-> Some([items |-> items,
                                 summary |-> [grandTotal |-> grandTotal,
                                              currency |-> extractCurrencyCode(raw)],
                                 source |-> "gemini"])]

\* safeParseJson: ok with the normalized data, or not ok when the text has
\* no braces, its slice is not JSON, items is not an array, summary is
\* falsy, or the normalization throws (an item that is null).
safeParseJson(text, low) ==
    LET cleaned == unwrapMarkdown(text)
        raw == cleaned.raw
    IN  IF cleaned.shape # "object" THEN NotOk
        ELSE IF ~Has(raw.items) \/ ~Has(raw.summary) THEN NotOk
        ELSE IF \E k \in 1..Len(Val(raw.items)) : Val(raw.items)[k].isNull
             THEN NotOk
        ELSE LET items == [k \in 1..Len(Val(raw.items)) |->
                              NormalizedItem(Val(raw.items)[k], k - 1, low)]
                 grandTotal ==
                    Round2(SumSeq([k \in 1..Len(items) |-> items[k].totalPrice]), 1)
             IN  [ok |-> TRUE,
                  data |-> Some([items |-> items,
                                 summary |-> [grandTotal |-> grandTotal,
                                              currency |-> extractCurrencyCode(raw)],
                                 source |-> "gemini"])]

\* The fields of a ParseResult that parseReceipt adds to the parsed data.
NoExtras ==
    [model |-> None, rawModelText |-> None, usedModelVersion |-> None,
     modelsTried |-> None]

\* mockParse: the fixed result (the item names are transliterated).
mockParse ==
    LET items ==
            <<[id |-> "1001", name |-> "Cola 0.5L", unitPrice |-> 2000,
               quantity |-> 6, totalPrice |-> 12000, kind |-> None],
              [id |-> "1002", name |-> "Cola (glass)", unitPrice |-> 2500,
               quantity |-> 1, totalPrice |-> 2500, kind |-> None],
              [id |-> "FEE1", name |-> "Service", unitPrice |-> 1200,
               quantity |-> 1, totalPrice |-> 1200, kind |-> Some("fee")]>>
    IN  [items |-> items,
         summary |-> [grandTotal |->
                        SumSeq([k \in 1..Len(items) |-> items[k].totalPrice]),
                      currency |-> <<"R", "U", "B">>],
         source |-> "mock"] @@ NoExtras

\* dynamicCandidates: the cached model first, then the other candidates.
dynamicCandidates(cached) ==
    IF Has(cached)
    THEN <<Val(cached).model>>
         \o SelectSeq(MODEL_CANDIDATES, LAMBDA m : m # Val(cached).model)
    ELSE MODEL_CANDIDATES

\* An entry of modelsTried (version is lastUsedVersion || "?", and
\* lastUsedVersion is never assigned).
Tried(model, status, httpStatus) ==
    [model |-> model, version |-> "?", status |-> status,
     httpStatus |-> httpStatus]

\* POST /sessions/scan, from the result of parseReceipt on: the response
\* body (sessionId, sessionName and language, which do not come from the
\* parser, are left out), with _debug when DEBUG_PARSE is set and the result
\* carries the model's text.
ScanResponse(parseResult, debug) ==
    [items |-> parseResult.items,
     summary |-> parseResult.summary,
     source |-> parseResult.source,
     _debug |-> IF debug /\ Has(parseResult.rawModelText)
                THEN Some([model |-> parseResult.model,
                           usedModelVersion |-> parseResult.usedModelVersion,
                           modelsTried |-> parseResult.modelsTried,
                           raw |-> parseResult.rawModelText])
                ELSE None]

\* A caller's parseReceipt call: not started, awaiting the fetch of
\* generateViaRest for candidates[idx], or returned.
IdleCall ==
    [pc |-> "idle", candidates |-> <<>>, idx |-> 0, requests |-> <<>>,
     response |-> None, modelsTried |-> <<>>, result |-> None]

\* parseReceipt up to its first await, without the check of the key: the
\* request for the first candidate is sent whether a key is set or not.
ParseReceiptStartNoKeyCheck(c) ==
    /\ parse[c].pc \in {"idle", "done"}
    /\ LET candidates == dynamicCandidates(cachedModel) IN
       parse' = [parse EXCEPT ![c] =
                    [IdleCall EXCEPT !.pc = "waiting",
                                     !.candidates = candidates,
                                     !.idx = 1,
                                     !.requests = <<candidates[1]>>]]
    /\ UNCHANGED <<history, nextRowId, now, req, res, fp, revision, env, cachedModel,
                   receiptParse, handlers, receiptLine, receiptItem>>

\* parseReceipt up to its first await: the mock result when no key is set,
\* else the request for the first candidate is sent.
ParseReceiptStart(c) ==
    /\ parse[c].pc \in {"idle", "done"}
    /\ IF ~env.key
       THEN parse' = [parse EXCEPT ![c] =
                        [IdleCall EXCEPT !.pc = "done", !.result = Some(mockParse)]]
       ELSE LET candidates == dynamicCandidates(cachedModel) IN
            parse' = [parse EXCEPT ![c] =
                        [IdleCall EXCEPT !.pc = "waiting",
                                         !.candidates = candidates,
                                         !.idx = 1,
                                         !.requests = <<candidates[1]>>]]
    /\ UNCHANGED <<history, nextRowId, now, req, res, fp, revision, env, cachedModel,
                   receiptParse, handlers, receiptLine, receiptItem>>

\* The provider's answer to the request in flight arrives: an HTTP status
\* that is not ok, a failure of fetch, or the text of the candidates.
ProviderResponds(c, outcome) ==
    /\ parse[c].pc = "waiting"
    /\ parse[c].response = None
    /\ parse' = [parse EXCEPT ![c].response = Some(outcome)]
    /\ UNCHANGED <<history, nextRowId, now, req, res, fp, revision, env, cachedModel,
                   receiptParse, handlers, receiptLine, receiptItem>>

\* The call after a candidate that failed, with the catch block rethrowing
\* what generateViaRest threw: only an output that does not parse moves on.
CaughtRethrown(call, tried, debug) ==
    IF tried[Len(tried)].status # "parse_fail"
    THEN [call EXCEPT !.pc = "thrown", !.response = None, !.modelsTried = tried]
    ELSE IF call.idx < Len(call.candidates)
    THEN [call EXCEPT !.idx = call.idx + 1,
                      !.requests = Append(call.requests,
                                          call.candidates[call.idx + 1]),
                      !.response = None,
                      !.modelsTried = tried]
    ELSE [call EXCEPT !.pc = "done", !.response = None, !.modelsTried = tried,
                      !.result = Some([mockParse EXCEPT
                                          !.modelsTried = IF debug THEN Some(tried)
                                                          ELSE None])]

\* The call after a candidate that failed, with modelsTried kept in one
\* array of the module that every call pushes to, instead of one per call.
CaughtSharedTrace(call, tried, debug) ==
    LET others == {d \in DOMAIN parse : parse[d] # call}
        shared == IF others = {} THEN tried
                  ELSE parse[CHOOSE d \in others : TRUE].modelsTried
                       \o <<tried[Len(tried)]>>
    IN  IF call.idx < Len(call.candidates)
        THEN [call EXCEPT !.idx = call.idx + 1,
                          !.requests = Append(call.requests,
                                              call.candidates[call.idx + 1]),
                          !.response = None,
                          !.modelsTried = shared]
        ELSE [call EXCEPT !.pc = "done", !.response = None,
                          !.modelsTried = shared,
                          !.result = Some([mockParse EXCEPT
                                              !.modelsTried =
                                                  IF debug THEN Some(shared)
                                                  ELSE None])]

\* The call after a candidate that failed (an output that does not parse,
\* or an error caught): the failure is in modelsTried and the loop
\* continues with the request for the next candidate; after the last one,
\* the fallback is returned: mockParse, with the trace under DEBUG_PARSE.
Caught(call, tried, debug) ==
    IF call.idx < Len(call.candidates)
    THEN [call EXCEPT !.idx = call.idx + 1,
                      !.requests = Append(call.requests,
                                          call.candidates[call.idx + 1]),
                      !.response = None,
                      !.modelsTried = tried]
    ELSE [call EXCEPT !.pc = "done", !.response = None, !.modelsTried = tried,
                      !.result = Some([mockParse EXCEPT
                                          !.modelsTried = IF debug THEN Some(tried)
                                                          ELSE None])]

\* parseReceipt from the settled fetch to its next await or its return:
\* a failure is pushed to modelsTried and the next candidate requested, or
\* the mock returned after the last one; an output that parses is returned,
\* and its model cached when none is.
ParseReceiptResume(c) ==
    /\ parse[c].pc = "waiting"
    /\ Has(parse[c].response)
    /\ LET call == parse[c]
           modelName == call.candidates[call.idx]
           o == Val(call.response)
           parsed == IF o.kind = "text" THEN safeParseJson(o.text, fp) ELSE NotOk
           tried == Append(call.modelsTried,
                           IF o.kind = "text"
                           THEN Tried(modelName, "parse_fail", None)
                           ELSE Tried(modelName, o.kind, o.httpStatus))
       IN  IF parsed.ok
           THEN /\ parse' = [parse EXCEPT ![c] =
                    [call EXCEPT
                        !.pc = "done",
                        !.response = None,
                        !.result = Some(
                            Val(parsed.data) @@
                            [model |-> Some(modelName),
                             rawModelText |-> IF env.debug THEN Some(o.text)
                                              ELSE None,
                             usedModelVersion |-> None,
                             modelsTried |->
                                IF env.debug
                                THEN Some(Append(call.modelsTried,
                                                 Tried(modelName, "ok", None)))
                                ELSE None])]]
                /\ cachedModel' =
                      IF Has(cachedModel) THEN cachedModel
                      ELSE Some([model |-> modelName, version |-> "v1"])
           ELSE /\ parse' = [parse EXCEPT ![c] = Caught(call, tried, env.debug)]
                /\ UNCHANGED cachedModel
    /\ UNCHANGED <<history, nextRowId, now, req, res, fp, revision, env,
                   receiptParse, handlers, receiptLine, receiptItem>>

\* What the provider can answer.  The texts: no braces, braces around
\* something that is not JSON, an object without items, one without a
\* summary, one with a null item, and four receipts; the third has a line
\* whose totalPrice is not its unitPrice times its quantity, and a line
\* without totalPrice whose price has more than two decimals; the fourth
\* has a line with a negative quantity.
Text(fenced, shape, raw) ==
    [fenced |-> fenced, content |-> [shape |-> shape, raw |-> raw]]

NoText == Text(FALSE, "none", NoRaw)

ReceiptA ==
    [NoRaw EXCEPT
        !.items = Some(<<[NoRawItem EXCEPT !.id = Some("1"), !.name = Some("Cola"),
                                          !.unitPrice = Some(2000),
                                          !.quantity = Some(2),
                                          !.totalPrice = Some(4000)]>>),
        !.summary = Some([NoRawSummary EXCEPT !.grandTotal = Some(4000),
                                             !.currency = Some(<<"r", "u", "b">>)])]

ReceiptB ==
    [NoRaw EXCEPT
        !.items = Some(<<[NoRawItem EXCEPT !.price = Some(1004),
                                          !.quantity = Some(0),
                                          !.kind = Some("fee")],
                         [NoRawItem EXCEPT !.id = Some("x"),
                                          !.unitPrice = Some(500),
                                          !.quantity = Some(3),
                                          !.currency = Some(<<"EURO_SIGN">>)]>>),
        !.summary = Some([NoRawSummary EXCEPT !.grandTotal = Some(99990)])]

ReceiptC ==
    [NoRaw EXCEPT
        !.items = Some(<<[NoRawItem EXCEPT !.name = Some("Tea"),
                                          !.unitPrice = Some(2000),
                                          !.quantity = Some(2),
                                          !.totalPrice = Some(5000)],
                         [NoRawItem EXCEPT !.name = Some("Bread"),
                                          !.price = Some(1004),
                                          !.quantity = Some(3)]>>),
        !.summary = Some([NoRawSummary EXCEPT !.grandTotal = Some(8010)])]

ReceiptD ==
    [NoRaw EXCEPT
        !.items = Some(<<[NoRawItem EXCEPT !.name = Some("Deposit"),
                                          !.unitPrice = Some(1000),
                                          !.quantity = Some(-2)]>>),
        !.summary = Some([NoRawSummary EXCEPT !.currency = Some(<<"r", "u", "b">>)])]

Texts ==
    {Text(FALSE, "noBraces", NoRaw),
     Text(TRUE, "notJson", NoRaw),
     Text(FALSE, "object", [ReceiptA EXCEPT !.items = None]),
     Text(FALSE, "object", [ReceiptA EXCEPT !.summary = None]),
     Text(FALSE, "object",
          [ReceiptA EXCEPT !.items = Some(<<[NoRawItem EXCEPT !.isNull = TRUE]>>)]),
     Text(FALSE, "object", ReceiptA),
     Text(TRUE, "object", ReceiptB),
     Text(FALSE, "object", ReceiptC),
     Text(FALSE, "object", ReceiptD)}

Outcomes ==
    {[kind |-> "http_error", httpStatus |-> Some(503), text |-> NoText],
     [kind |-> "exception", httpStatus |-> None, text |-> NoText]}
    \cup {[kind |-> "text", httpStatus |-> None, text |-> t] : t \in Texts}

\* The answers in the specification of two concurrent calls: a status that
\* is not ok, an output without braces, and the two receipts.
RaceOutcomes ==
    {[kind |-> "http_error", httpStatus |-> Some(503), text |-> NoText],
     [kind |-> "text", httpStatus |-> None,
      text |-> Text(FALSE, "noBraces", NoRaw)],
     [kind |-> "text", httpStatus |-> None, text |-> Text(FALSE, "object", ReceiptA)],
     [kind |-> "text", httpStatus |-> None, text |-> Text(TRUE, "object", ReceiptB)]}

(***************************************************************************)
(* POST /sessions/:sessionId/receipt/parse (src/src/routes/uploads.ts),     *)
(* await by await.  A request is [caller, sessionId, force]; its body has   *)
(* no targetLanguage, so no translation is asked for.  A row of table       *)
(* ReceiptParse is [sessionId, status, linesCount]; sessionId is its unique *)
(* key, and stands for its id in the rows of ReceiptLine, which are         *)
(* [sessionId, lineIndex, description].  A row of ReceiptItem is            *)
(* [sessionId, lineIndex, name], lineIndex standing for the order of the    *)
(* ids.  What parseReceiptWithGemini returns is the sequence of its items'  *)
(* descriptionOriginal.                                                     *)
(***************************************************************************)
ParseRequest(caller, sessionId, force) ==
    [caller |-> caller, sessionId |-> sessionId, force |-> force]

\* What parseReceiptWithGemini settles with: it throws (None), or returns
\* one of two receipts.
GeminiOutcomes == {None, Some(<<"Cola", "Tea">>), Some(<<"Bread">>)}

\* A request's handler: not started, at one of its awaits, or answered.
\* parsed is what the provider returned; tx is the open transaction's view
\* of the three tables, and idx the item its loop is at.
IdleHandler ==
    [pc |-> "idle", r |-> ParseRequest(0, 0, FALSE), res |-> NoResponse,
     parsed |-> <<>>, idx |-> 0, tx |-> None]

Answered(handler, response) ==
    [handler EXCEPT !.pc = "done", !.res = response, !.tx = None]

\* The outer catch: res.status(500).json({ error: "Server error" }).
ServerError(handler) == Answered(handler, Error(500, "Server error"))

\* prisma.receiptParse.findUnique({ where: { sessionId } })
ParseRowsOf(rows, sessionId) == {row \in rows : row.sessionId = sessionId}

\* prisma.receiptParse.upsert: the session's row, new or not, is PROCESSING.
UpsertProcessing(rows, sessionId) ==
    IF ParseRowsOf(rows, sessionId) = {}
    THEN rows \cup {[sessionId |-> sessionId, status |-> "PROCESSING",
                     linesCount |-> 0]}
    ELSE {IF row.sessionId = sessionId THEN [row EXCEPT !.status = "PROCESSING"]
          ELSE row : row \in rows}

\* The update leaves the entry as it is.
UpdateStatusSkipped(rows, sessionId, status) == rows

\* prisma.receiptParse.update({ where: { sessionId }, data: { status } })
UpdateStatus(rows, sessionId, status) ==
    {IF row.sessionId = sessionId THEN [row EXCEPT !.status = status] ELSE row :
        row \in rows}

\* The row of the session's entry is locked by the open transaction of
\* another request, which has updated it: a write to it waits.
RowLocked(h, sessionId) ==
    \E g \in DOMAIN handlers :
        g # h /\ Has(handlers[g].tx) /\ handlers[g].r.sessionId = sessionId

\* The handler up to the read of the session's parse entry: 501 without a
\* key, 404 for an unknown session, 400 for a session without an image, 403
\* for a caller who is not allowed.  (The sessions of the model have no
\* group and no participants: only the creator is allowed.)
ReceiptParseBegin(h, r) ==
    /\ handlers[h].pc \in {"idle", "done"}
    /\ handlers' = [handlers EXCEPT ![h] =
          LET handler == [IdleHandler EXCEPT !.r = r] IN
          IF ~env.key THEN Answered(handler, Error(501, "Receipt parsing disabled"))
          ELSE IF r.sessionId \notin DOMAIN SessionTable
               THEN Answered(handler, Error(404, "Session not found"))
          ELSE IF ~Has(SessionTable[r.sessionId].receiptImageUrl)
               THEN Answered(handler, Error(400, "No receiptImageUrl in session"))
          ELSE IF SessionTable[r.sessionId].creatorId # r.caller
               THEN Answered(handler, Error(403, "Forbidden"))
          ELSE [handler EXCEPT !.pc = "find"]]
    /\ UNCHANGED <<history, nextRowId, now, req, res, fp, revision, env, cachedModel,
                   parse, receiptParse, receiptLine, receiptItem>>

\* existingParse && existingParse.status === "PROCESSING" && !force
AlreadyProcessing(rows, r) ==
    /\ \E row \in ParseRowsOf(rows, r.sessionId) : row.status = "PROCESSING"
    /\ ~r.force

\* The read of the parse entry settles: "Already processing" is answered,
\* or the handler goes on to the upsert.
ReceiptParseFind(h, dbOk) ==
    /\ handlers[h].pc = "find"
    /\ handlers' = [handlers EXCEPT ![h] =
          IF ~dbOk THEN ServerError(@)
          ELSE IF AlreadyProcessing(receiptParse, @.r)
               THEN Answered(@, [status |-> 200, error |-> "",
                                 body |-> Some([status |-> "PROCESSING",
                                                message |-> "Already processing"])])
          ELSE [@ EXCEPT !.pc = "upsert"]]
    /\ UNCHANGED <<history, nextRowId, now, req, res, fp, revision, env, cachedModel,
                   parse, receiptParse, receiptLine, receiptItem>>

\* The upsert settles: the entry is PROCESSING and parseReceiptWithGemini is
\* called.
ReceiptParseUpsert(h, dbOk) ==
    /\ handlers[h].pc = "upsert"
    /\ ~RowLocked(h, handlers[h].r.sessionId)
    /\ IF dbOk
       THEN /\ receiptParse' = UpsertProcessing(receiptParse, handlers[h].r.sessionId)
            /\ handlers' = [handlers EXCEPT ![h].pc = "provider"]
       ELSE /\ handlers' = [handlers EXCEPT ![h] = ServerError(@)]
            /\ UNCHANGED receiptParse
    /\ UNCHANGED <<history, nextRowId, now, req, res, fp, revision, env, cachedModel,
                   parse, receiptLine, receiptItem>>

\* parseReceiptWithGemini settles: with the parsed receipt, or by throwing.
GeminiSettles(h, outcome) ==
    /\ handlers[h].pc = "provider"
    /\ handlers' = [handlers EXCEPT ![h] =
          IF Has(outcome)
          THEN [@ EXCEPT !.pc = "persist", !.parsed = Val(outcome), !.idx = 1]
          ELSE [@ EXCEPT !.pc = "failed"]]
    /\ UNCHANGED <<history, nextRowId, now, req, res, fp, revision, env, cachedModel,
                   parse, receiptParse, receiptLine, receiptItem>>

\* The three tables, as one value.
Tables(parses, lines, items) ==
    [receiptParse |-> parses, receiptLine |-> lines, receiptItem |-> items]

\* The statements of the transaction, in order: the update of the entry to
\* COMPLETED, deleteMany of its lines, deleteMany of the session's items,
\* then for each parsed item the create of its line and of its item.  Each
\* takes the transaction's view of the tables to the next.
Statements(sessionId, parsed) ==
    <<[op |-> "update", k |-> 0], [op |-> "deleteLines", k |-> 0],
      [op |-> "deleteItems", k |-> 0]>>
    \o [j \in 1..(2 * Len(parsed)) |->
          [op |-> IF j % 2 = 1 THEN "createLine" ELSE "createItem",
           k |-> (j + 1) \div 2]]

Execute(statement, view, sessionId, parsed) ==
    CASE statement.op = "update" ->
            [view EXCEPT !.receiptParse =
                {IF row.sessionId = sessionId
                 THEN [row EXCEPT !.status = "COMPLETED",
                                  !.linesCount = Len(parsed)]
                 ELSE row : row \in @}]
      [] statement.op = "deleteLines" ->
            [view EXCEPT !.receiptLine = {l \in @ : l.sessionId # sessionId}]
      [] statement.op = "deleteItems" ->
            [view EXCEPT !.receiptItem = {i \in @ : i.sessionId # sessionId}]
      [] statement.op = "createLine" ->
            [view EXCEPT !.receiptLine =
                @ \cup {[sessionId |-> sessionId, lineIndex |-> statement.k - 1,
                         description |-> parsed[statement.k]]}]
      [] statement.op = "createItem" ->
            [view EXCEPT !.receiptItem =
                @ \cup {[sessionId |-> sessionId, lineIndex |-> statement.k - 1,
                         name |-> parsed[statement.k]]}]

\* The view after the statements from the k-th on.
RECURSIVE ExecuteFrom(_, _, _, _, _)
ExecuteFrom(statements, k, view, sessionId, parsed) ==
    IF k > Len(statements) THEN view
    ELSE ExecuteFrom(statements, k + 1,
                     Execute(statements[k], view, sessionId, parsed),
                     sessionId, parsed)

\* The committed tables with the session's rows as the view has them.
Merged(committed, view, sessionId) ==
    [t \in DOMAIN committed |->
        {row \in committed[t] : row.sessionId # sessionId}
        \cup {row \in view[t] : row.sessionId = sessionId}]

\* The tables with every statement written where the other requests read,
\* as soon as it is executed.
PublishedAtOnce(committed, view, sessionId, commits) ==
    Merged(committed, view, sessionId)

\* prisma.$transaction: what the other requests read while a transaction
\* runs is what was committed; what it wrote is read once it commits.
Published(committed, view, sessionId, commits) ==
    IF commits THEN Merged(committed, view, sessionId) ELSE committed

\* A statement of the transaction settles, or its commit does.  The first
\* statement waits for the entry's row while another transaction has it.
\* When one throws, the transaction is rolled back and the inner catch
\* entered; when the commit settles, the parse is answered.
TransactionStep(h, dbOk) ==
    LET handler == handlers[h]
        sessionId == handler.r.sessionId
        statements == Statements(sessionId, handler.parsed)
        committed == Tables(receiptParse, receiptLine, receiptItem)
        view == IF Has(handler.tx) THEN Val(handler.tx) ELSE committed
        commits == handler.idx > Len(statements)
        after == IF commits THEN view
                 ELSE Execute(statements[handler.idx], view, sessionId,
                              handler.parsed)
        read == IF dbOk THEN Published(committed, after, sessionId, commits)
                ELSE committed
    IN  /\ handler.pc = "persist"
        /\ Has(handler.tx) \/ ~RowLocked(h, sessionId)
        /\ handlers' = [handlers EXCEPT ![h] =
              IF ~dbOk THEN [handler EXCEPT !.pc = "failed", !.tx = None]
              ELSE IF commits
                   THEN Answered(handler,
                                 [status |-> 200, error |-> "",
                                  body |-> Some([status |-> "COMPLETED",
                                                 message |-> ""])])
              ELSE [handler EXCEPT !.idx = handler.idx + 1, !.tx = Some(after)]]
        /\ receiptParse' = read.receiptParse
        /\ receiptLine' = read.receiptLine
        /\ receiptItem' = read.receiptItem
        /\ UNCHANGED <<history, nextRowId, now, req, res, fp, revision, env,
                       cachedModel, parse>>

\* The transaction that persists the parse settles, seen as one step:
\* committed, the entry is COMPLETED, the lines and items are those parsed,
\* and the parse is answered; thrown, the inner catch is entered.
ReceiptParsePersist(h, dbOk) ==
    LET handler == handlers[h]
        sessionId == handler.r.sessionId
        after == ExecuteFrom(Statements(sessionId, handler.parsed), 1,
                             Tables(receiptParse, receiptLine, receiptItem),
                             sessionId, handler.parsed)
    IN  /\ handler.pc = "persist"
        /\ ~RowLocked(h, sessionId)
        /\ IF dbOk
           THEN /\ receiptParse' = after.receiptParse
                /\ receiptLine' = after.receiptLine
                /\ receiptItem' = after.receiptItem
                /\ handlers' = [handlers EXCEPT ![h] =
                      Answered(@, [status |-> 200, error |-> "",
                                   body |-> Some([status |-> "COMPLETED",
                                                  message |-> ""])])]
           ELSE /\ handlers' = [handlers EXCEPT ![h].pc = "failed"]
                /\ UNCHANGED <<receiptParse, receiptLine, receiptItem>>
        /\ UNCHANGED <<history, nextRowId, now, req, res, fp, revision, env,
                       cachedModel, parse>>

\* The inner catch: the entry is set to FAILED and "Parse failed" answered;
\* when that update throws too, the outer catch answers.
ReceiptParseFailed(h, dbOk) ==
    /\ handlers[h].pc = "failed"
    /\ ~RowLocked(h, handlers[h].r.sessionId)
    /\ IF dbOk
       THEN /\ receiptParse' =
                 UpdateStatus(receiptParse, handlers[h].r.sessionId, "FAILED")
            /\ handlers' = [handlers EXCEPT ![h] =
                  Answered(@, Error(500, "Parse failed"))]
       ELSE /\ handlers' = [handlers EXCEPT ![h] = ServerError(@)]
            /\ UNCHANGED receiptParse
    /\ UNCHANGED <<history, nextRowId, now, req, res, fp, revision, env, cachedModel,
                   parse, receiptLine, receiptItem>>

(***************************************************************************)
(* Requests.  Roster ids are "A" and "B"; "Z" is an id outside every        *)
(* roster.  Amounts are in mills: 1000 is 1.00, 5 is half a cent.           *)
(***************************************************************************)
Participant(id) == [uniqueId |-> id, username |-> ""]

BaseItem ==
    [isObject |-> TRUE, id |-> "i1", name |-> "Cola",
     price |-> None, unitPrice |-> None, totalPrice |-> None,
     quantity |-> 1, kind |-> None,
     splitMode |-> "", perPersonCount |-> None, assignedTo |-> None]

NullItem == [BaseItem EXCEPT !.isObject = FALSE]

Entry(pid, units) == [pid |-> pid, units |-> units]

EqualItem(id, price, qty, assigned) ==
    [BaseItem EXCEPT !.id = id, !.price = Some(price), !.quantity = qty,
                     !.splitMode = "equal", !.assignedTo = Some(assigned)]

CountItem(id, price, qty, counts) ==
    [BaseItem EXCEPT !.id = id, !.price = Some(price), !.quantity = qty,
                     !.splitMode = "count", !.perPersonCount = Some(counts)]

Request(caller, sessionId, participants, items) ==
    [caller |-> caller, sessionId |-> sessionId, sessionName |-> "",
     participants |-> participants, items |-> items]

NoRequest == Request(0, None, <<>>, <<>>)

\* How an item states its price.
Pricings ==
    {[price |-> Some(p), unitPrice |-> None, totalPrice |-> None] :
        p \in {-1000, 0, 5, 15, 1000, 1005}}
    \cup {[price |-> None, unitPrice |-> Some(250), totalPrice |-> None],
          [price |-> None, unitPrice |-> None, totalPrice |-> Some(1000)],
          [price |-> None, unitPrice |-> None, totalPrice |-> Some(0)],
          [price |-> None, unitPrice |-> None, totalPrice |-> None]}

EntryOpts(pid, units) == {<<>>} \cup {<<Entry(pid, u)>> : u \in units}

\* How an item states its split.
Splits ==
    {[splitMode |-> "equal", perPersonCount |-> None, assignedTo |-> Some(l)] :
        l \in UNION {[1..n -> {"A", "B", "Z"}] : n \in 0..MaxAssignees}}
    \cup {[splitMode |-> "count", perPersonCount |-> Some(c), assignedTo |-> None] :
        c \in {a \o b \o z : a \in EntryOpts("A", (0 - 1)..MaxQty),
                             b \in EntryOpts("B", 0..MaxQty),
                             z \in EntryOpts("Z", {1})}}
    \cup {[splitMode |-> "", perPersonCount |-> None, assignedTo |-> Some(<<"A", "B">>)],
          [splitMode |-> "", perPersonCount |-> Some(<<Entry("A", 1), Entry("B", 1)>>),
           assignedTo |-> Some(<<"A">>)],
          [splitMode |-> "equal", perPersonCount |-> Some(<<Entry("A", 1)>>),
           assignedTo |-> Some(<<"A", "B">>)],
          [splitMode |-> "count", perPersonCount |-> None, assignedTo |-> None],
          [splitMode |-> "equal", perPersonCount |-> None, assignedTo |-> None],
          [splitMode |-> "percent", perPersonCount |-> None,
           assignedTo |-> Some(<<"A">>)]}

AllocItems ==
    {[BaseItem EXCEPT !.price = p.price, !.unitPrice = p.unitPrice,
                      !.totalPrice = p.totalPrice, !.quantity = q,
                      !.splitMode = s.splitMode,
                      !.perPersonCount = s.perPersonCount,
                      !.assignedTo = s.assignedTo] :
        p \in Pricings, q \in 0..MaxQty, s \in Splits}

\* Items for the lists of two: valid ones with equal and different ids, a
\* kind, a missing id, a non-object entry, a rejected one.
PairItems ==
    {EqualItem("i1", 1000, 3, <<"A", "B">>),
     [EqualItem("i1", 250, 1, <<"B">>) EXCEPT !.name = "Tip", !.kind = Some("tip")],
     CountItem("i2", 1000, 3, <<Entry("A", 2), Entry("B", 1)>>),
     CountItem("i2", 1000, 3, <<Entry("A", 1), Entry("B", 1)>>),
     [EqualItem("", 1000, 1, <<"A">>) EXCEPT !.name = "x"],
     NullItem}

AllocRosters ==
    {<<Participant("A")>>,
     <<Participant("A"), Participant("B")>>,
     <<Participant("A"), Participant("A")>>}

\* The requests of the allocation specification: the owner's, for session 1.
AllocRequests ==
    {Request(1, Some(1), ps, <<it>>) : ps \in AllocRosters, it \in AllocItems}
    \cup {Request(1, Some(1), ps, <<a, b>>) :
            ps \in AllocRosters, a \in PairItems, b \in PairItems}

\* The requests of the store specification: the owner's item lists for
\* session 1 (valid ones, and ones with a rejected item first or last), and
\* calls by user 2, for the unknown session 2, and with a malformed body.
StoreGood ==
    {EqualItem("i1", 1000, 3, <<"A", "B">>),
     EqualItem("i1", 2000, 3, <<"A", "B", "A">>),
     CountItem("i2", 1000, 3, <<Entry("A", 2), Entry("B", 1)>>)}

StoreBad ==
    {CountItem("i3", 1000, 3, <<Entry("A", 1), Entry("B", 1)>>),
     EqualItem("i3", 1000, 1, <<"A", "Z">>)}

StoreItemLists ==
    {<<a>> : a \in StoreGood \cup StoreBad}
    \cup {<<EqualItem("i1", 1000, 3, <<"A", "B">>), b>> : b \in StoreBad}
    \cup {<<b, EqualItem("i1", 1000, 3, <<"A", "B">>)>> : b \in StoreBad}
    \cup {<<EqualItem("i1", 1000, 3, <<"A", "B">>),
            CountItem("i2", 1000, 3, <<Entry("A", 2), Entry("B", 1)>>)>>}

StoreRoster == <<Participant("A"), Participant("B")>>

StoreRequests ==
    {Request(1, Some(1), StoreRoster, l) : l \in StoreItemLists}
    \cup {Request(c, Some(s), StoreRoster,
                  <<EqualItem("i1", 1000, 3, <<"A", "B">>)>>) :
            c \in {1, 2}, s \in {1, 2}}
    \cup {Request(2, Some(1), StoreRoster,
                  <<CountItem("i3", 1000, 3, <<Entry("A", 1), Entry("B", 1)>>)>>),
          Request(1, None, StoreRoster,
                  <<EqualItem("i1", 1000, 3, <<"A", "B">>)>>),
          Request(2, Some(1), <<>>,
                  <<EqualItem("i1", 1000, 3, <<"A", "B">>)>>),
          Request(1, Some(2), StoreRoster, <<>>)}

\* The requests of the specification of repeated calls: the owner's, for
\* sessions 1 and 3, with item lists that share a roster (one with amounts
\* at half a cent), and a call by user 2.
ReproItemLists ==
    {<<EqualItem("i1", 1000, 3, <<"A", "B">>)>>,
     <<CountItem("i2", 1000, 3, <<Entry("A", 2), Entry("B", 1)>>)>>,
     <<EqualItem("i1", 1005, 1, <<"A", "B", "A">>),
       CountItem("i2", 1000, 3, <<Entry("A", 2), Entry("B", 1)>>)>>}

ReproRequests ==
    {Request(1, Some(s), StoreRoster, l) : s \in {1, 3}, l \in ReproItemLists}
    \cup {Request(2, Some(1), StoreRoster, <<EqualItem("i1", 1000, 3, <<"A", "B">>)>>)}

(***************************************************************************)
(* The currency of a decoded output: extractCurrencyCode applied to        *)
(* outputs whose summary, top level and single item each carry one token   *)
(* in one of their currency fields.                                         *)
(***************************************************************************)
\* The tokens: none, the empty string, a symbol, a code in lower case, a
\* Cyrillic name in lower case, a code between spaces, three letters that
\* are no currency, a token without letters, an amount followed by a
\* symbol, a code followed by a dot, and the word the model is asked to
\* answer when unsure.
CurrencyTokens ==
    {None,
     Some(<<>>),
     Some(<<"EURO_SIGN">>),
     Some(<<"r", "u", "b">>),
     Some(<<"cyr_er", "cyr_u", "cyr_be">>),
     Some(<<" ", "U", "S", "D", " ">>),
     Some(<<"x", "y", "z">>),
     Some(<<"?", "?">>),
     Some(<<"1", "2", " ", "$">>),
     Some(<<"r", "u", "b", ".">>),
     Some(DEFAULT_CURRENCY_CODE)}

SummaryCurrencyFields == {"currency", "currencyCode", "currency_code", "isoCurrency"}
CurrencyFields == {"currency", "currencyCode", "currency_code"}

\* A decoded output with one token in field sf of its summary, one in
\* field tf of its top level, and one in field itf of its only item.
CurrencyRaw(sf, st, tf, tt, itf, it) ==
    [[NoRaw EXCEPT ![tf] = tt] EXCEPT
        !.summary = Some([NoRawSummary EXCEPT ![sf] = st]),
        !.items = Some(<<[NoRawItem EXCEPT ![itf] = it]>>)]

CurrencyRaws ==
    {CurrencyRaw(sf, st, tf, tt, itf, it) :
        sf \in SummaryCurrencyFields, st \in CurrencyTokens,
        tf \in CurrencyFields, tt \in CurrencyTokens,
        itf \in CurrencyFields, it \in CurrencyTokens}

\* extractCurrencyCode is applied to the output in req; res holds the code.
ExtractCurrencyCodeOf(raw) ==
    /\ res = NoResponse
    /\ res' = [status |-> 200, error |-> "",
               body |-> Some([currency |-> extractCurrencyCode(raw)])]
    /\ UNCHANGED <<history, nextRowId, now, req, fp, revision, env, cachedModel,
                   parse, receiptParse, handlers, receiptLine, receiptItem>>

(***************************************************************************)
(* POST /sessions/finalize, await by await: the handler up to its first     *)
(* write to SessionHistoryEntry, and each write that settles.  The handler  *)
(* of a request keeps the request r, the response out that it computed,     *)
(* how its write went (write: "none", "ok", "failed" or "skipped"), the     *)
(* response res that it sent, and the clock values at which the request     *)
(* arrived (began) and was answered (ended; 0 until then).  The clock       *)
(* ticks at every arrival.                                                  *)
(***************************************************************************)
IdleFinalize ==
    [pc |-> "idle", r |-> NoRequest, out |-> NoResponse, write |-> "none",
     res |-> NoResponse, began |-> 0, ended |-> 0]

\* uploads.ts: the body of the 200 response.
EarlierBody(r, payload) ==
    [sessionId |-> Val(r.sessionId),
     sessionName |-> r.sessionName,
     status |-> "finalized",
     createdAt |-> SessionTable[Val(r.sessionId)].createdAt,
     totals |-> payload.totals,
     allocations |-> payload.allocations,
     participants |-> PList(r.participants)]

\* uploads.ts: the row that sessionHistoryEntry.create inserts at time t.
EarlierRow(id, r, payload, t) ==
    [id |-> id,
     sessionId |-> Val(r.sessionId),
     sessionName |-> r.sessionName,
     status |-> "finalized",
     ownerUserId |-> SessionTable[Val(r.sessionId)].creatorId,
     participantUniqueIds |->
        [k \in 1..Len(PList(r.participants)) |-> PList(r.participants)[k].uniqueId],
     participants |-> PList(r.participants),
     allocations |-> payload.allocations,
     totals |-> payload.totals,
     createdAt |-> t]

\* sessions.ts: the handler up to await sessionHistoryEntry.upsert.  A
\* request that fails a check is answered; else responsePayload is built,
\* with finalizedAt the time of new Date().
FinalizeBegin(h, r) ==
    LET out == Computed(r, now + 1, fp) IN
    /\ revision = "sessions"
    /\ handlers[h].pc \in {"idle", "done"}
    /\ now < MaxClock
    /\ now' = now + 1
    /\ handlers' = [handlers EXCEPT ![h] =
          IF out.status # 200
          THEN [IdleFinalize EXCEPT !.pc = "done", !.r = r, !.res = out,
                                    !.began = now + 1, !.ended = now + 1]
          ELSE [IdleFinalize EXCEPT !.pc = "upsert", !.r = r, !.out = out,
                                    !.began = now + 1]]
    /\ UNCHANGED <<history, nextRowId, req, res, fp, revision, env, cachedModel,
                   parse, receiptParse, receiptLine, receiptItem>>

\* sessions.ts: the upsert settles.  Done, the snapshot of the session is
\* that of this request and responsePayload is answered; thrown, the catch
\* answers 500.
FinalizeUpsert(h, dbOk) ==
    /\ revision = "sessions"
    /\ handlers[h].pc = "upsert"
    /\ LET r == handlers[h].r
           sid == Val(r.sessionId)
           fields == SnapshotFields(r, Val(handlers[h].out.body))
       IN  IF dbOk
           THEN /\ history' =
                     Upsert(history, nextRowId, sid,
                            [creatorId |-> SessionTable[sid].creatorId] @@ fields,
                            fields)
                /\ nextRowId' = IF RowsOf(history, sid) = {} THEN nextRowId + 1
                                ELSE nextRowId
                /\ handlers' = [handlers EXCEPT ![h].pc = "done",
                                                ![h].write = "ok",
                                                ![h].res = handlers[h].out,
                                                ![h].ended = now]
           ELSE /\ handlers' = [handlers EXCEPT ![h].pc = "done",
                                                ![h].write = "failed",
                                                ![h].res = Error(500, "Server error"),
                                                ![h].ended = now]
                /\ UNCHANGED <<history, nextRowId>>
    /\ UNCHANGED <<now, req, res, fp, revision, env, cachedModel, parse, receiptParse,
                   receiptLine, receiptItem>>

\* uploads.ts: the handler up to await sessionHistoryEntry.findUnique.
FinalizeSkipBegin(h, r) ==
    LET out == Computed(r, now + 1, fp) IN
    /\ revision = "uploads"
    /\ handlers[h].pc \in {"idle", "done"}
    /\ now < MaxClock
    /\ now' = now + 1
    /\ handlers' = [handlers EXCEPT ![h] =
          IF out.status # 200
          THEN [IdleFinalize EXCEPT !.pc = "done", !.r = r, !.res = out,
                                    !.began = now + 1, !.ended = now + 1]
          ELSE [IdleFinalize EXCEPT
                   !.pc = "find", !.r = r, !.began = now + 1,
                   !.out = [status |-> 200, error |-> "",
                            body |-> Some(EarlierBody(r, Val(out.body)))]]]
    /\ UNCHANGED <<history, nextRowId, req, res, fp, revision, env, cachedModel,
                   parse, receiptParse, receiptLine, receiptItem>>

\* uploads.ts: findUnique settles.  An entry of the session ends the
\* persistence (skipped), a throw is caught and logged (failed); either
\* way the 200 response is sent.  Without an entry the handler goes on to
\* create one.
FinalizeSkipFind(h, dbOk) ==
    /\ revision = "uploads"
    /\ handlers[h].pc = "find"
    /\ LET handler == handlers[h] IN
       handlers' = [handlers EXCEPT ![h] =
          IF ~dbOk
          THEN [handler EXCEPT !.pc = "done", !.write = "failed",
                               !.res = handler.out, !.ended = now]
          ELSE IF RowsOf(history, Val(handler.r.sessionId)) # {}
          THEN [handler EXCEPT !.pc = "done", !.write = "skipped",
                               !.res = handler.out, !.ended = now]
          ELSE [handler EXCEPT !.pc = "create"]]
    /\ UNCHANGED <<history, nextRowId, now, req, res, fp, revision, env, cachedModel,
                   parse, receiptParse, receiptLine, receiptItem>>

\* uploads.ts: create settles.  It throws when the database fails and when
\* the session has an entry by now (the unique index on sessionId); the
\* throw is caught and logged, and the 200 response sent all the same.
FinalizeSkipCreate(h, dbOk) ==
    /\ revision = "uploads"
    /\ handlers[h].pc = "create"
    /\ LET r == handlers[h].r
           created == dbOk /\ RowsOf(history, Val(r.sessionId)) = {}
       IN  /\ handlers' = [handlers EXCEPT
                              ![h].pc = "done",
                              ![h].write = IF created THEN "ok" ELSE "failed",
                              ![h].res = handlers[h].out,
                              ![h].ended = now]
           /\ IF created
              THEN /\ history' = history \cup
                        {EarlierRow(nextRowId, r, Val(handlers[h].out.body), now)}
                   /\ nextRowId' = nextRowId + 1
              ELSE UNCHANGED <<history, nextRowId>>
    /\ UNCHANGED <<now, req, res, fp, revision, env, cachedModel, parse, receiptParse,
                   receiptLine, receiptItem>>

\* The requests of the specification of concurrent finalize calls: the
\* owner's, for session 1, and one that the item loop rejects.
RaceRequests ==
    {Request(1, Some(1), StoreRoster, <<a>>) : a \in StoreGood}
    \cup {Request(1, Some(1), StoreRoster,
                  <<EqualItem("i3", 1000, 1, <<"A", "Z">>)>>)}

(***************************************************************************)
(* The history queries: GET /sessions/history of sessions.ts, and GET       *)
(* /sessions/history and GET /sessions/history/latest of uploads.ts.  A     *)
(* query is [caller, all, limit, participantId]: all is the query           *)
(* parameter in lower case ("" when absent), limit the optional number      *)
(* that Number() makes of the parameter, participantId an optional id.      *)
(***************************************************************************)

\* Table User: the rows that exist, by id.  User 3 is authenticated but has
\* no row.
UserTable == (1 :> [uniqueId |-> "A"]) @@ (2 :> [uniqueId |-> "B"])

HistoryQuery(caller, all, limit, participantId) ==
    [caller |-> caller, all |-> all, limit |-> limit,
     participantId |-> participantId]

\* sessions.ts: the snapshot that finalize stores for session s of creator
\* c with the given roster, finalized at time t.
UpsertedRow(s, c, roster, t) ==
    LET r == Request(c, Some(s), roster, <<EqualItem("i1", 1000, 3, <<"A">>)>>)
        payload ==
            [Val(Computed(Request(1, Some(1), roster, r.items), t, {}).body)
                EXCEPT !.sessionId = s]
    IN  [id |-> s, sessionId |-> s, creatorId |-> c] @@ SnapshotFields(r, payload)

\* uploads.ts: the snapshot that finalize stores for session s.
CreatedRow(s, c, roster, t) ==
    LET r == Request(c, Some(s), roster, <<EqualItem("i1", 1000, 3, <<"A">>)>>)
        payload == Val(Computed(Request(1, Some(1), roster, r.items), t, {}).body)
    IN  [EarlierRow(s, Request(1, Some(1), roster, r.items), payload, t)
            EXCEPT !.sessionId = s, !.ownerUserId = c]

\* The rows sorted by their time, earliest first.
RECURSIVE OrderByAsc(_)
OrderByAsc(pairs) ==
    IF pairs = {} THEN <<>>
    ELSE LET first == CHOOSE p \in pairs : \A q \in pairs : p.time <= q.time
         IN  <<first.row>> \o OrderByAsc(pairs \ {first})

\* orderBy: { finalizedAt: "desc" } (or createdAt), on pairs [time, row]:
\* the rows sorted by their time, latest first.
RECURSIVE OrderByDesc(_)
OrderByDesc(pairs) ==
    IF pairs = {} THEN <<>>
    ELSE LET first == CHOOSE p \in pairs : \A q \in pairs : p.time >= q.time
         IN  <<first.row>> \o OrderByDesc(pairs \ {first})

\* take: the first n of the sorted rows (all of them without take).
Take(rows, n) == IF Has(n) THEN SubSeq(rows, 1, IF Val(n) < Len(rows) THEN Val(n)
                                                   ELSE Len(rows))
                 ELSE rows

\* Math.trunc of a positive number.
Trunc(x) == x.num \div x.den

\* sessions.ts GET /history.
GetHistory(q) ==
    /\ revision = "sessions"
    /\ res = NoResponse
    /\ req' = q
    /\ res' =
        IF q.caller \notin DOMAIN UserTable THEN Error(404, "User not found")
        ELSE
        LET uniqueId == UserTable[q.caller].uniqueId
            fetchAll == q.all \in {"1", "true"}
            given == ~fetchAll /\ Has(q.limit)
            parsed == Val(q.limit)
        IN  IF given /\ (parsed.nan \/ parsed.num <= 0)
            THEN Error(400, "limit must be a positive integer")
            ELSE
            LET limit == IF given
                         THEN (IF Trunc(parsed) < 50 THEN Trunc(parsed) ELSE 50)
                         ELSE 5
                found == {row \in history :
                            \/ row.creatorId = q.caller
                            \/ uniqueId \in row.participantUniqueIds}
                entries == Take(OrderByDesc({[time |-> row.finalizedAt, row |-> row] :
                                                row \in found}),
                                IF fetchAll THEN None ELSE Some(limit))
                response == [k \in 1..Len(entries) |->
                                [sessionId |-> entries[k].sessionId,
                                 sessionName |-> entries[k].sessionName,
                                 finalizedAt |-> entries[k].finalizedAt,
                                 grandTotal |-> entries[k].grandTotal,
                                 participantUniqueIds |->
                                    entries[k].participantUniqueIds,
                                 isCreator |-> entries[k].creatorId = q.caller,
                                 payload |-> entries[k].payload]]
            IN  [status |-> 200, error |-> "",
                 body |-> Some([scope |-> IF fetchAll THEN "all" ELSE "latest",
                                count |-> Len(response),
                                limit |-> IF fetchAll THEN None ELSE Some(limit),
                                entries |-> response])]
    /\ UNCHANGED <<history, nextRowId, now, fp, revision, env, cachedModel, parse,
                   receiptParse, handlers, receiptLine, receiptItem>>

\* uploads.ts: an entry of the response (the avatar propagation changes
\* nothing here: the participants of the model carry no avatarUrl).
EarlierEntry(e) ==
    [sessionId |-> e.sessionId, sessionName |-> e.sessionName,
     createdAt |-> e.createdAt, status |-> e.status,
     totals |-> e.totals, participants |-> e.participants,
     allocations |-> e.allocations]

\* uploads.ts GET /history: every snapshot of the participant asked for, or
\* of the caller.
GetHistoryByParticipant(q) ==
    /\ revision = "uploads"
    /\ res = NoResponse
    /\ req' = q
    /\ res' =
        IF ~Has(q.participantId) /\ q.caller \notin DOMAIN UserTable
        THEN Error(404, "User not found")
        ELSE
        LET targetUniqueId == IF Has(q.participantId) THEN Val(q.participantId)
                              ELSE UserTable[q.caller].uniqueId
            found == {row \in history :
                        /\ targetUniqueId \in SeqRange(row.participantUniqueIds)
                        /\ row.status = "finalized"}
            entries == OrderByDesc({[time |-> row.createdAt, row |-> row] :
                                        row \in found})
        IN  [status |-> 200, error |-> "",
             body |-> Some([participantId |-> targetUniqueId,
                            sessions |-> [k \in 1..Len(entries) |->
                                            EarlierEntry(entries[k])]])]
    /\ UNCHANGED <<history, nextRowId, now, fp, revision, env, cachedModel, parse,
                   receiptParse, handlers, receiptLine, receiptItem>>

\* uploads.ts GET /history/latest.  A limit that is not a whole number makes
\* findMany throw, which the catch answers with 500.
GetHistoryLatest(q) ==
    /\ revision = "uploads"
    /\ res = NoResponse
    /\ req' = q
    /\ res' =
        LET raw == IF Has(q.limit) THEN Val(q.limit) ELSE Num(10, 1)
            positive == IF raw.nan \/ raw.num <= 0 THEN Num(10, 1) ELSE raw
            limit == IF positive.num > 100 * positive.den THEN Num(100, 1)
                     ELSE positive
        IN  IF q.caller \notin DOMAIN UserTable THEN Error(404, "User not found")
            ELSE IF limit.num % limit.den # 0 THEN Error(500, "Server error")
            ELSE
            LET found == {row \in history :
                            /\ UserTable[q.caller].uniqueId
                                  \in SeqRange(row.participantUniqueIds)
                            /\ row.status = "finalized"}
                entries == Take(OrderByDesc({[time |-> row.createdAt, row |-> row] :
                                                row \in found}),
                                Some(Trunc(limit)))
            IN  [status |-> 200, error |-> "",
                 body |-> Some([limit |-> Trunc(limit),
                                count |-> Len(entries),
                                sessions |-> [k \in 1..Len(entries) |->
                                                EarlierEntry(entries[k])]])]
    /\ UNCHANGED <<history, nextRowId, now, fp, revision, env, cachedModel, parse,
                   receiptParse, handlers, receiptLine, receiptItem>>

\* uploads.ts GET /:sessionId/history: the snapshot of the session asked
\* for, whoever asks.  The query is a history query with the path
\* parameter sessionId, as Number() reads it.
GetSessionHistory(q) ==
    /\ revision = "uploads"
    /\ res = NoResponse
    /\ req' = q
    /\ res' =
        IF q.sessionId.nan THEN Error(400, "Invalid sessionId")
        ELSE
        LET sessionId == Trunc(q.sessionId)
            found == {row \in history : row.sessionId = sessionId}
        IN  IF found = {}
            THEN [status |-> 200, error |-> "",
                  body |-> Some([exists |-> FALSE, sessionId |-> sessionId])]
            ELSE LET entry == CHOOSE row \in found : TRUE
                 IN  [status |-> 200, error |-> "",
                      body |-> Some([exists |-> TRUE] @@ EarlierEntry(entry))]
    /\ UNCHANGED <<history, nextRowId, now, fp, revision, env, cachedModel, parse,
                   receiptParse, handlers, receiptLine, receiptItem>>

\* The stores of the history specification: snapshots of sessions 1..n,
\* finalized in the order of their ids or in another order.  The sessions
\* are created by users 1 and 2 in turn; "A" is on every roster and "B" on
\* every third.
SnapshotCounts == {0, 3, 6, 11, 51, MaxSnapshots}

FinalizedAt(s, order) == IF order = "asc" THEN s ELSE (s * 37) % 103

RosterOf(s) ==
    IF s % 3 = 0 THEN <<Participant("A"), Participant("B")>>
    ELSE <<Participant("A")>>

UpsertedStores ==
    {{UpsertedRow(s, 2 - (s % 2), RosterOf(s), FinalizedAt(s, order)) : s \in 1..n} :
        n \in SnapshotCounts, order \in {"asc", "mixed"}}

CreatedStores ==
    {{CreatedRow(s, 2 - (s % 2), RosterOf(s), FinalizedAt(s, order)) : s \in 1..n} :
        n \in SnapshotCounts, order \in {"asc", "mixed"}}

\* The queries: with and without all, with the limits absent, not a
\* number, not positive, fractional, and below, at and above the caps.
HistoryQueries ==
    {HistoryQuery(c, all, limit, None) :
        c \in {1, 2, 3}, all \in {"", "1", "true", "yes"},
        limit \in {None, Some(NaN), Some(Num(0, 1)), Some(Num(0 - 1, 1)),
                   Some(Num(1, 2)), Some(Num(5, 2)), Some(Num(1, 1)),
                   Some(Num(4, 1)), Some(Num(50, 1)), Some(Num(51, 1)),
                   Some(Num(100, 1)), Some(Num(1000, 1))}}
    \cup {HistoryQuery(c, "", None, Some("B")) : c \in {1, 3}}

(***************************************************************************)
(* Specifications.                                                          *)
(***************************************************************************)
Init ==
    /\ history = {}
    /\ nextRowId = 1
    /\ now = 0
    /\ req = NoRequest
    /\ res = NoResponse
    /\ fp = {}
    /\ revision \in Revisions
    /\ env = [key |-> TRUE, debug |-> FALSE]
    /\ cachedModel = None
    /\ parse = (1 :> IdleCall)
    /\ receiptParse = {}
    /\ receiptLine = {}
    /\ receiptItem = {}
    /\ handlers = <<>>

Next ==
    \/ \E r \in StoreRequests : Finalize(r)
    \/ \E r \in StoreRequests : FinalizeSkipExisting(r)

\* The settlement store under any sequence of finalize calls.
Spec == Init /\ [][Next]_vars

InitAlloc ==
    /\ history = {}
    /\ nextRowId = 1
    /\ now = 0
    /\ req \in AllocRequests
    /\ res = NoResponse
    /\ fp \in SUBSET TieOperands(req)
    /\ revision \in Revisions
    /\ env = [key |-> TRUE, debug |-> FALSE]
    /\ cachedModel = None
    /\ parse = (1 :> IdleCall)
    /\ receiptParse = {}
    /\ receiptLine = {}
    /\ receiptItem = {}
    /\ handlers = <<>>

NextAlloc ==
    \/ res = NoResponse /\ Finalize(req)
    \/ res = NoResponse /\ FinalizeSkipExisting(req)

\* One finalize call on each request of AllocRequests.
SpecAlloc == InitAlloc /\ [][NextAlloc]_vars

InitParse ==
    /\ history = {}
    /\ nextRowId = 1
    /\ now = 0
    /\ req = NoRequest
    /\ res = NoResponse
    /\ fp = {}
    /\ revision = "sessions"
    /\ env \in [key : BOOLEAN, debug : BOOLEAN]
    /\ cachedModel = None
    /\ parse = (1 :> IdleCall)
    /\ receiptParse = {}
    /\ receiptLine = {}
    /\ receiptItem = {}
    /\ handlers = <<>>

NextParse ==
    \/ \E c \in DOMAIN parse : ParseReceiptStart(c)
    \/ \E c \in DOMAIN parse, outcome \in Outcomes : ProviderResponds(c, outcome)
    \/ \E c \in DOMAIN parse : ParseReceiptResume(c)

\* parseReceipt calls, one after the other, of one caller.
SpecParse == InitParse /\ [][NextParse]_vars


InitRace ==
    /\ history = {}
    /\ nextRowId = 1
    /\ now = 0
    /\ req = NoRequest
    /\ res = NoResponse
    /\ fp = {}
    /\ revision = "sessions"
    /\ env \in [key : {TRUE}, debug : BOOLEAN]
    /\ cachedModel = None
    /\ parse = (1 :> IdleCall) @@ (2 :> IdleCall)
    /\ receiptParse = {}
    /\ receiptLine = {}
    /\ receiptItem = {}
    /\ handlers = <<>>

NextRace ==
    \/ \E c \in DOMAIN parse : ParseReceiptStart(c)
    \/ \E c \in DOMAIN parse, outcome \in RaceOutcomes : ProviderResponds(c, outcome)
    \/ \E c \in DOMAIN parse : ParseReceiptResume(c)

\* parseReceipt calls of two callers, interleaved at their awaits.
SpecRace == InitRace /\ [][NextRace]_vars

InitReceiptParse ==
    /\ history = {}
    /\ nextRowId = 1
    /\ now = 0
    /\ req = NoRequest
    /\ res = NoResponse
    /\ fp = {}
    /\ revision = "uploads"
    /\ env \in [key : BOOLEAN, debug : {FALSE}]
    /\ cachedModel = None
    /\ parse = (1 :> IdleCall)
    /\ receiptParse = {}
    /\ receiptLine = {}
    /\ receiptItem = {}
    /\ handlers = [h \in 1..MaxRequests |-> IdleHandler]

NextReceiptParse ==
    \/ \E h \in DOMAIN handlers, c \in {1, 2}, s \in {1, 2}, f \in BOOLEAN :
          ReceiptParseBegin(h, ParseRequest(c, s, f))
    \/ \E h \in DOMAIN handlers, dbOk \in BOOLEAN : ReceiptParseFind(h, dbOk)
    \/ \E h \in DOMAIN handlers, dbOk \in BOOLEAN : ReceiptParseUpsert(h, dbOk)
    \/ \E h \in DOMAIN handlers, outcome \in GeminiOutcomes : GeminiSettles(h, outcome)
    \/ \E h \in DOMAIN handlers, dbOk \in BOOLEAN : ReceiptParsePersist(h, dbOk)
    \/ \E h \in DOMAIN handlers, dbOk \in BOOLEAN : ReceiptParseFailed(h, dbOk)

\* Concurrent requests to POST /:sessionId/receipt/parse.
SpecReceiptParse == InitReceiptParse /\ [][NextReceiptParse]_vars

InitPersist ==
    /\ history = {}
    /\ nextRowId = 1
    /\ now = 0
    /\ req = NoRequest
    /\ res = NoResponse
    /\ fp = {}
    /\ revision = "uploads"
    /\ env = [key |-> TRUE, debug |-> FALSE]
    /\ cachedModel = None
    /\ parse = (1 :> IdleCall)
    /\ receiptParse = {}
    /\ receiptLine = {}
    /\ receiptItem = {}
    /\ handlers = [h \in 1..MaxRequests |-> IdleHandler]

\* The requests are the creator's, for session 1, and each handler serves
\* one request.
NextPersist ==
    \/ \E h \in DOMAIN handlers, f \in BOOLEAN :
          handlers[h].pc = "idle" /\ ReceiptParseBegin(h, ParseRequest(1, 1, f))
    \/ \E h \in DOMAIN handlers, dbOk \in BOOLEAN : ReceiptParseFind(h, dbOk)
    \/ \E h \in DOMAIN handlers, dbOk \in BOOLEAN : ReceiptParseUpsert(h, dbOk)
    \/ \E h \in DOMAIN handlers, outcome \in GeminiOutcomes : GeminiSettles(h, outcome)
    \/ \E h \in DOMAIN handlers, dbOk \in BOOLEAN : TransactionStep(h, dbOk)
    \/ \E h \in DOMAIN handlers, dbOk \in BOOLEAN : ReceiptParseFailed(h, dbOk)

\* Concurrent requests to POST /:sessionId/receipt/parse, the transaction
\* statement by statement.
SpecPersist == InitPersist /\ [][NextPersist]_vars

NextOnce ==
    \/ \E h \in DOMAIN handlers, f \in BOOLEAN :
          handlers[h].pc = "idle" /\ ReceiptParseBegin(h, ParseRequest(1, 1, f))
    \/ \E h \in DOMAIN handlers, dbOk \in BOOLEAN : ReceiptParseFind(h, dbOk)
    \/ \E h \in DOMAIN handlers, dbOk \in BOOLEAN : ReceiptParseUpsert(h, dbOk)
    \/ \E h \in DOMAIN handlers, outcome \in GeminiOutcomes : GeminiSettles(h, outcome)
    \/ \E h \in DOMAIN handlers, dbOk \in BOOLEAN : ReceiptParsePersist(h, dbOk)
    \/ \E h \in DOMAIN handlers, dbOk \in BOOLEAN : ReceiptParseFailed(h, dbOk)

\* Requests to POST /:sessionId/receipt/parse for one session, concurrent
\* or one after another, each handler serving one request.
SpecOnce == InitPersist /\ [][NextOnce]_vars

InitFinalizeRace ==
    /\ history = {}
    /\ nextRowId = 1
    /\ now = 0
    /\ req = NoRequest
    /\ res = NoResponse
    /\ fp = {}
    /\ revision \in Revisions
    /\ env = [key |-> TRUE, debug |-> FALSE]
    /\ cachedModel = None
    /\ parse = (1 :> IdleCall)
    /\ receiptParse = {}
    /\ receiptLine = {}
    /\ receiptItem = {}
    /\ handlers = (1 :> IdleFinalize) @@ (2 :> IdleFinalize)

NextFinalizeRace ==
    \/ \E h \in DOMAIN handlers, r \in RaceRequests : FinalizeBegin(h, r)
    \/ \E h \in DOMAIN handlers, dbOk \in BOOLEAN : FinalizeUpsert(h, dbOk)
    \/ \E h \in DOMAIN handlers, r \in RaceRequests : FinalizeSkipBegin(h, r)
    \/ \E h \in DOMAIN handlers, dbOk \in BOOLEAN : FinalizeSkipFind(h, dbOk)
    \/ \E h \in DOMAIN handlers, dbOk \in BOOLEAN : FinalizeSkipCreate(h, dbOk)

\* Two concurrent callers of POST /sessions/finalize.
SpecFinalizeRace == InitFinalizeRace /\ [][NextFinalizeRace]_vars

InitHistory ==
    /\ revision \in Revisions
    /\ history \in (IF revision = "sessions" THEN UpsertedStores ELSE CreatedStores)
    /\ nextRowId = Cardinality(history) + 1
    /\ now = 103
    /\ req \in HistoryQueries
    /\ res = NoResponse
    /\ fp = {}
    /\ env = [key |-> TRUE, debug |-> FALSE]
    /\ cachedModel = None
    /\ parse = (1 :> IdleCall)
    /\ receiptParse = {}
    /\ receiptLine = {}
    /\ receiptItem = {}
    /\ handlers = <<>>

NextHistory ==
    \/ GetHistory(req)
    \/ GetHistoryByParticipant(req)
    \/ GetHistoryLatest(req)

\* One history query on each store of snapshots.
SpecHistory == InitHistory /\ [][NextHistory]_vars

\* The queries of the access specification: each caller, about themselves
\* or about a participant, with the path parameter of the by-session route.
AccessQueries ==
    {HistoryQuery(c, all, None, participantId) @@ [sessionId |-> s] :
        c \in {1, 2, 3}, all \in {"", "1"},
        participantId \in {None, Some("A"), Some("B")},
        s \in {NaN, Num(1, 1), Num(2, 1), Num(3, 1), Num(6, 1), Num(7, 1)}}

AccessStores(rev) ==
    {store \in (IF rev = "sessions" THEN UpsertedStores ELSE CreatedStores) :
        Cardinality(store) <= 6}

InitAccess ==
    /\ revision \in Revisions
    /\ history \in AccessStores(revision)
    /\ nextRowId = Cardinality(history) + 1
    /\ now = 103
    /\ req \in AccessQueries
    /\ res = NoResponse
    /\ fp = {}
    /\ env = [key |-> TRUE, debug |-> FALSE]
    /\ cachedModel = None
    /\ parse = (1 :> IdleCall)
    /\ receiptParse = {}
    /\ receiptLine = {}
    /\ receiptItem = {}
    /\ handlers = <<>>

NextAccess ==
    \/ GetHistory(req)
    \/ GetHistoryByParticipant(req)
    \/ GetHistoryLatest(req)
    \/ GetSessionHistory(req)

\* One history query, of the list routes or of the by-session route, on
\* each store of snapshots.
SpecAccess == InitAccess /\ [][NextAccess]_vars

InitCurrency ==
    /\ revision = "sessions"
    /\ history = {}
    /\ nextRowId = 1
    /\ now = 0
    /\ req \in CurrencyRaws
    /\ res = NoResponse
    /\ fp = {}
    /\ env = [key |-> TRUE, debug |-> FALSE]
    /\ cachedModel = None
    /\ parse = (1 :> IdleCall)
    /\ receiptParse = {}
    /\ receiptLine = {}
    /\ receiptItem = {}
    /\ handlers = <<>>

NextCurrency == ExtractCurrencyCodeOf(req)

\* extractCurrencyCode on each decoded output.
SpecCurrency == InitCurrency /\ [][NextCurrency]_vars

InitRepro ==
    /\ history = {}
    /\ nextRowId = 1
    /\ now = 0
    /\ req = NoRequest
    /\ res = NoResponse
    /\ fp \in SUBSET UNION {TieOperands(r) : r \in ReproRequests}
    /\ revision \in Revisions
    /\ env = [key |-> TRUE, debug |-> FALSE]
    /\ cachedModel = None
    /\ parse = (1 :> IdleCall)
    /\ receiptParse = {}
    /\ receiptLine = {}
    /\ receiptItem = {}
    /\ handlers = <<>>

NextRepro ==
    \/ \E r \in ReproRequests : Finalize(r)
    \/ \E r \in ReproRequests : FinalizeSkipExisting(r)

\* Finalize calls one after another, for two sessions of one owner.
SpecRepro == InitRepro /\ [][NextRepro]_vars

(***************************************************************************)
(* What the claims speak of.                                                *)
(***************************************************************************)
Succeeded == res.status = 200
Allocations == Val(res.body).allocations
ResTotals == Val(res.body).totals

\* The items of the request that the loop does not skip.
ItemIndices == {i \in 1..Len(req.items) : req.items[i].isObject}

\* Item i is the only item of the request with its id.
OnlyOfItsId(i) ==
    \A j \in ItemIndices : j # i => req.items[j].id # req.items[i].id

\* The sum of shareAmount over the allocations of item id.
ShareSum(id) ==
    SumSeq([k \in 1..Len(Allocations) |->
              IF Allocations[k].itemId = id THEN Allocations[k].shareAmount
              ELSE 0])

\* round(unitPrice x quantity, 2) of an item, as round2 gives it.
ItemTotal(raw) ==
    Round2Fp(UnitPriceOf(raw).num * raw.quantity, UnitPriceOf(raw).den,
             Prod(UnitPriceOf(raw), raw.quantity) \in fp)

\* The item's totalPrice: as given, or unitPrice x quantity rounded.
ItemTotalPrice(raw) ==
    IF Has(raw.totalPrice) THEN Val(raw.totalPrice) ELSE ItemTotal(raw)

\* C1: in every successful finalize, the shares of every item split equal
\* sum to round(unitPrice x quantity, 2), whatever N and the price.
C1_EqualSharesSumToTotal ==
    Succeeded =>
        \A i \in ItemIndices :
            (SplitModeOf(req.items[i]) = "equal" /\ OnlyOfItsId(i))
                => ShareSum(req.items[i].id) = ItemTotal(req.items[i])

\* C2: in every successful finalize, the shares of every item sum to the
\* item's totalPrice, exact to the cent.
C2_SharesSumToTotalPrice ==
    Succeeded =>
        \A i \in ItemIndices :
            OnlyOfItsId(i)
                => ShareSum(req.items[i].id) = ItemTotalPrice(req.items[i])

\* C3: after every successful finalize, grandTotal equals the sum of
\* byItem[].total and the sum of byParticipant[].amountOwed.
C3_TotalsAgree ==
    Succeeded =>
        /\ ResTotals.grandTotal =
              SumSeq([k \in 1..Len(ResTotals.byItem) |-> ResTotals.byItem[k].total])
        /\ ResTotals.grandTotal =
              SumSeq([k \in 1..Len(ResTotals.byParticipant) |->
                        ResTotals.byParticipant[k].amountOwed])

\* C8: every item of a successful finalize has unitPrice > 0 and
\* quantity > 0 (finalize fails for any other item).
C8_PositivePriceAndQuantity ==
    Succeeded =>
        \A i \in ItemIndices :
            /\ ~UnitPriceOf(req.items[i]).nan
            /\ UnitPriceOf(req.items[i]).num > 0
            /\ req.items[i].quantity > 0

\* C9: every allocation of a successful finalize names a participant of the
\* roster, and no item of a successful finalize names an id outside it.
C9_AllocationsNameRoster ==
    Succeeded =>
        LET roster == {req.participants[k].uniqueId : k \in 1..Len(req.participants)}
        IN  /\ \A k \in 1..Len(Allocations) : Allocations[k].participantId \in roster
            /\ \A i \in ItemIndices :
                  LET raw == req.items[i] IN
                  /\ (SplitModeOf(raw) = "equal" /\ Has(raw.assignedTo))
                        => SeqRange(Val(raw.assignedTo)) \subseteq roster
                  /\ (SplitModeOf(raw) = "count" /\ Has(raw.perPersonCount))
                        => \A k \in 1..Len(Val(raw.perPersonCount)) :
                              Val(raw.perPersonCount)[k].pid \in roster

\* C9's case: a call whose item names "Z", outside the roster, is answered
\* with the error.
C9_Witness ==
    /\ res.status = 400
    /\ res.error = "Unknown participant in assignedTo"
    /\ \E i \in ItemIndices :
          /\ Has(req.items[i].assignedTo)
          /\ "Z" \in SeqRange(Val(req.items[i].assignedTo))
          /\ "A" \in SeqRange(Val(req.items[i].assignedTo))

\* The stored snapshots of the session of the last request.
Snapshots == RowsOf(history, Val(req.sessionId))

\* The totals and allocations a stored snapshot carries.
Contents(row) ==
    IF revision = "sessions"
    THEN [totals |-> row.payload.totals, allocations |-> row.payload.allocations]
    ELSE [totals |-> row.totals, allocations |-> row.allocations]

\* C4: after every successful finalize, exactly one snapshot is stored for
\* the session and its contents are those of that call, the most recent.
C4_OneSnapshotOfLastCall ==
    Succeeded =>
        /\ Cardinality(Snapshots) = 1
        /\ \A row \in Snapshots :
              Contents(row) = [totals |-> ResTotals, allocations |-> Allocations]

\* The units of a count-split item's perPersonCount, summed.
UnitsOf(raw) ==
    IF Has(raw.perPersonCount)
    THEN SumSeq([k \in 1..Len(Val(raw.perPersonCount)) |->
                    Val(raw.perPersonCount)[k].units])
    ELSE 0

\* Item raw is split by count and its units do not sum to its quantity.
CountMismatch(raw) ==
    raw.isObject /\ SplitModeOf(raw) = "count" /\ UnitsOf(raw) # raw.quantity

\* C5: a call with a count-split item whose units do not sum to the item's
\* quantity is rejected as a whole: an error response with no allocations,
\* and the stored snapshots left as they were.
C5_CountMismatchRejected ==
    [][(\E i \in 1..Len(req'.items) : CountMismatch(req'.items[i]))
          => /\ res'.status # 200
             /\ res'.body = None
             /\ history' = history]_vars

\* C5's case: the error of the unit sum was answered to a session that has
\* a snapshot.
C5_Witness ==
    /\ res.status = 400
    /\ res.error = "Sum of perPersonCount must equal quantity"
    /\ \E i \in ItemIndices : CountMismatch(req.items[i])
    /\ Snapshots # {}

\* The item loop rejects item raw when it is the only item of request r.
Rejected(raw, r) ==
    ProcessItems(<<raw>>, ParticipantIndex(PList(r.participants)), 1,
                 <<>>, <<>>, fp).error # ""

\* C6: a call with an item the loop rejects, at any position, is answered
\* with an error; and an error response carries no allocations or totals
\* and leaves the stored snapshots as they were.
C6_AllOrNothing ==
    [][/\ (\E i \in 1..Len(req'.items) : Rejected(req'.items[i], req'))
            => res'.status # 200
       /\ res'.status # 200 => (res'.body = None /\ history' = history)]_vars

\* C6's case: a list of a valid item and then a rejected one was answered
\* with the error, in a session that has a snapshot.
C6_Witness ==
    /\ res.status = 400
    /\ Len(req.items) = 2
    /\ ~Rejected(req.items[1], req)
    /\ Rejected(req.items[2], req)
    /\ Snapshots # {}

\* The session of request r is unknown, or its creator is not the caller.
NotOwner(r) ==
    \/ Val(r.sessionId) \notin DOMAIN SessionTable
    \/ SessionTable[Val(r.sessionId)].creatorId # r.caller

Resumes(c) == Has(parse[c].response) /\ ~Has(parse'[c].response)

\* An answer that fails the candidate: an HTTP status that is not ok, an
\* exception, or a text that is unparseable (no braces, not JSON, an item
\* that is null) or lacks the items array or the summary.
FailedAnswer(o) ==
    \/ o.kind \in {"http_error", "exception"}
    \/ o.text.content.shape # "object"
    \/ ~Has(o.text.content.raw.items)
    \/ ~Has(o.text.content.raw.summary)
    \/ \E k \in 1..Len(Val(o.text.content.raw.items)) :
          Val(o.text.content.raw.items)[k].isNull

\* The requests of a call go to its candidates in their order, one each.
OnePerCandidate(call) ==
    /\ call.requests = SubSeq(call.candidates, 1, Len(call.requests))
    /\ \A i, j \in 1..Len(call.candidates) :
          call.candidates[i] = call.candidates[j] => i = j

\* What the chain does with the answer to call c, but for the trace of the
\* result: a failed answer is recorded and the next candidate requested
\* (after the last one the chain ends); an answer that parses ends the
\* chain with a result of the provider, of the candidate asked.
ChainStep(c) ==
    LET call == parse[c]
        after == parse'[c]
        o == Val(call.response)
        m == call.candidates[call.idx]
    IN  /\ OnePerCandidate(after)
        /\ IF FailedAnswer(o)
           THEN /\ Len(after.modelsTried) = Len(call.modelsTried) + 1
                /\ SubSeq(after.modelsTried, 1, Len(call.modelsTried))
                      = call.modelsTried
                /\ after.modelsTried[Len(after.modelsTried)].model = m
                /\ after.modelsTried[Len(after.modelsTried)].status
                      \in {"http_error", "exception", "parse_fail"}
                /\ IF call.idx < Len(call.candidates)
                   THEN /\ after.pc = "waiting"
                        /\ after.requests =
                              Append(call.requests, call.candidates[call.idx + 1])
                   ELSE /\ after.pc = "done"
                        /\ after.requests = call.requests
           ELSE /\ after.pc = "done"
                /\ after.requests = call.requests
                /\ Val(after.result).source = "gemini"
                /\ Val(after.result).model = Some(m)
                /\ Val(after.result).items = Val(safeParseJson(o.text, fp).data).items

\* The trace of failed attempts in order and then one success.
FullTrace(c) ==
    Some(Append(parse[c].modelsTried,
                Tried(parse[c].candidates[parse[c].idx], "ok", None)))

\* C10 as stated: with a key, every answer is handled as ChainStep says, and
\* the result of the answer that parses carries the trace: the failed
\* attempts in order, then exactly one success.
C10_ChainWithTrace ==
    [][\A c \in DOMAIN parse :
          (env.key /\ Resumes(c))
             => /\ ChainStep(c)
                /\ ~FailedAnswer(Val(parse[c].response))
                      => Val(parse'[c].result).modelsTried = FullTrace(c)]_vars

\* C10: with a key, parseReceipt sends one request per candidate, in the
\* candidates' order; a failed answer is recorded and the next candidate
\* tried; the first answer that parses ends the chain with a result of the
\* provider, which carries the trace (the failed attempts in order, then
\* one success) when DEBUG_PARSE is set and no trace otherwise.
C10_ChainTraceInDebug ==
    [][\A c \in DOMAIN parse :
          (env.key /\ Resumes(c))
             => /\ ChainStep(c)
                /\ ~FailedAnswer(Val(parse[c].response))
                      => Val(parse'[c].result).modelsTried =
                            IF env.debug THEN FullTrace(c) ELSE None]_vars

\* C10's case: the first two candidates failed and the third parsed; the
\* result is the provider's and its trace has the two failures, then ok.
C10_Witness ==
    \E c \in DOMAIN parse :
        /\ env.key /\ env.debug
        /\ parse[c].pc = "done"
        /\ Has(parse[c].result)
        /\ Val(parse[c].result).source = "gemini"
        /\ Val(parse[c].result).model = Some(MODEL_CANDIDATES[3])
        /\ parse[c].requests = MODEL_CANDIDATES
        /\ Has(Val(parse[c].result).modelsTried)
        /\ LET trace == Val(Val(parse[c].result).modelsTried)
           IN  /\ Len(trace) = 3
               /\ trace[1].status = "http_error"
               /\ trace[2].status = "parse_fail"
               /\ trace[3].status = "ok"


\* The answer to call c that is taken up in this step is the failure of the
\* call's last candidate.
LastCandidateFails(c) ==
    /\ Resumes(c)
    /\ FailedAnswer(Val(parse[c].response))
    /\ parse[c].idx = Len(parse[c].candidates)

\* C11: parseReceipt does not throw whatever the provider answers (a call
\* is idle, waiting or has returned a result), and when the last candidate
\* fails too, whether by an HTTP status, an exception or an output that does
\* not parse, the call returns the fixed mock result with source "mock", so
\* the scan response carries its items and summary.
C11_FailuresAbsorbed ==
    [][\A c \in DOMAIN parse :
          /\ parse'[c].pc \in {"idle", "waiting", "done"}
          /\ parse'[c].pc = "done" => Has(parse'[c].result)
          /\ (env.key /\ LastCandidateFails(c))
                => /\ parse'[c].pc = "done"
                   /\ Val(parse'[c].result).source = "mock"
                   /\ Val(parse'[c].result).items = mockParse.items
                   /\ Val(parse'[c].result).summary = mockParse.summary
                   /\ LET body == ScanResponse(Val(parse'[c].result), env.debug)
                      IN  /\ body.source = "mock"
                          /\ body.items = mockParse.items
                          /\ body.summary = mockParse.summary]_vars

\* C11's case: every candidate of a call failed, one by an HTTP status, one
\* by an exception and one by its output, and the call returned the mock.
C11_Witness ==
    \E c \in DOMAIN parse :
        /\ env.key
        /\ parse[c].pc = "done"
        /\ Len(parse[c].modelsTried) = Len(MODEL_CANDIDATES)
        /\ {parse[c].modelsTried[k].status : k \in 1..Len(parse[c].modelsTried)}
              = {"http_error", "exception", "parse_fail"}
        /\ Val(parse[c].result).source = "mock"
        /\ ScanResponse(Val(parse[c].result), env.debug).items = mockParse.items

\* C12: with no provider key, every step of a parseReceipt call is a
\* return of the mock: source "mock", the fixed items 1001, 1002 and FEE1,
\* a grandTotal that is the sum of their totalPrice; no request is sent to
\* the provider and cachedModel stays as it was.
C12_NoKeyMock ==
    [][\A c \in DOMAIN parse :
          (~env.key /\ parse'[c] # parse[c])
             => /\ parse'[c].pc = "done"
                /\ parse'[c].requests = <<>>
                /\ cachedModel' = cachedModel
                /\ LET result == Val(parse'[c].result)
                   IN  /\ result.source = "mock"
                       /\ result.items = mockParse.items
                       /\ [k \in 1..Len(result.items) |-> result.items[k].id]
                             = <<"1001", "1002", "FEE1">>
                       /\ result.summary.grandTotal =
                             SumSeq([k \in 1..Len(result.items) |->
                                        result.items[k].totalPrice])
                       /\ result.modelsTried = None]_vars

\* C12's case: a call without a key has returned the mock.
C12_Witness ==
    \E c \in DOMAIN parse :
        /\ ~env.key
        /\ parse[c].pc = "done"
        /\ parse[c].requests = <<>>
        /\ Val(parse[c].result).source = "mock"
        /\ Val(parse[c].result).summary.grandTotal = 15700

\* C13: a call that starts after a call that succeeded with model M (the
\* most recent successful call, then) sends its first request to M.
C13_LastSuccessTriedFirst ==
    [][\A c \in DOMAIN parse :
          (/\ env.key
           /\ parse[c].pc = "done"
           /\ Val(parse[c].result).source = "gemini"
           /\ parse'[c].pc = "waiting")
             => parse'[c].requests[1] = Val(Val(parse[c].result).model)]_vars

\* The failures of a call are those of its own first candidates, in its
\* own order, and its candidates are MODEL_CANDIDATES in some order.
OwnTrace(call) ==
    /\ Len(call.modelsTried) <= Len(call.candidates)
    /\ \A k \in 1..Len(call.modelsTried) :
          /\ call.modelsTried[k].model = call.candidates[k]
          /\ call.modelsTried[k].status \in {"http_error", "exception", "parse_fail"}
    /\ call.pc # "idle" =>
          /\ Len(call.candidates) = Len(MODEL_CANDIDATES)
          /\ SeqRange(call.candidates) = SeqRange(MODEL_CANDIDATES)

\* The result that the answers to call c alone determine, when the answer
\* o to its candidate m is taken up: the normalized output of o when it
\* parses, m being then the first of c's candidates whose answer parsed
\* (the earlier ones are the failures in c's modelsTried); the mock when o
\* fails and m is c's last candidate; none yet otherwise.
OwnResult(call, o, m, debug) ==
    IF ~FailedAnswer(o)
    THEN Some(Val(safeParseJson(o.text, {}).data) @@
              [model |-> Some(m),
               rawModelText |-> IF debug THEN Some(o.text) ELSE None,
               usedModelVersion |-> None,
               modelsTried |->
                  IF debug THEN Some(Append(call.modelsTried, Tried(m, "ok", None)))
                  ELSE None])
    ELSE IF call.idx = Len(call.candidates)
    THEN Some([items |-> mockParse.items, summary |-> mockParse.summary,
               source |-> "mock", model |-> None, rawModelText |-> None,
               usedModelVersion |-> None,
               modelsTried |->
                  IF debug
                  THEN Some(Append(call.modelsTried,
                                   Tried(m, IF o.kind = "text" THEN "parse_fail"
                                            ELSE o.kind, o.httpStatus)))
                  ELSE None])
    ELSE None

\* C14: under every interleaving of two calls that share cachedModel, a
\* step of one call leaves the other call as it is, and the result of a
\* call is the one its own answers determine: the normalized output of the
\* first of its candidates, in its own order, whose answer to it parsed, or
\* the mock when none did, with a trace of its own failures only.
C14_CallsIsolated ==
    [][\A c \in DOMAIN parse :
          /\ OwnTrace(parse'[c])
          /\ parse'[c] # parse[c]
                => \A d \in DOMAIN parse \ {c} : parse'[d] = parse[d]
          /\ Resumes(c)
                => LET call == parse[c]
                       o == Val(call.response)
                       m == call.candidates[call.idx]
                   IN  /\ call.idx = Len(call.modelsTried) + 1
                       /\ parse'[c].result = OwnResult(call, o, m, env.debug)
                       /\ parse'[c].pc = IF Has(parse'[c].result) THEN "done"
                                         ELSE "waiting"]_vars

\* C14's case: both calls were in flight together with different orders of
\* candidates, call 2 having started after a success cached another model
\* than the first; each has returned the receipt it was answered, call 1
\* from its second candidate and call 2 from its first.
C14_Witness ==
    /\ parse[1].pc = "done" /\ parse[2].pc = "done"
    /\ parse[1].candidates # parse[2].candidates
    /\ Len(parse[1].modelsTried) = 1
    /\ Len(parse[2].modelsTried) = 0
    /\ Val(parse[1].result).source = "gemini"
    /\ Val(parse[2].result).source = "gemini"
    /\ Len(Val(parse[1].result).items) = 1
    /\ Len(Val(parse[2].result).items) = 2
    /\ Val(parse[1].result).model = Some(parse[1].candidates[2])
    /\ Val(parse[2].result).model = Some(parse[2].candidates[1])

\* The requests without force that are past the already-processing check
\* for session s and call the provider.
CallingProvider(s) ==
    {h \in DOMAIN handlers :
        /\ handlers[h].pc = "provider"
        /\ handlers[h].r.sessionId = s
        /\ ~handlers[h].r.force}

\* C15: for each session, at most one request without force at a time is
\* past the already-processing check and calls the provider.
C15_OneParseAtATime ==
    \A s \in DOMAIN SessionTable : Cardinality(CallingProvider(s)) <= 1


\* Both finalize calls were answered 200, and they were concurrent: each
\* arrived before the other was answered.
BothCompleted ==
    /\ \A h \in DOMAIN handlers :
          handlers[h].pc = "done" /\ handlers[h].res.status = 200
    /\ handlers[1].began <= handlers[2].ended
    /\ handlers[2].began <= handlers[1].ended

\* The stored row is, in all its fields, the snapshot of the call of handler.
SnapshotOfCall(row, handler) ==
    IF revision = "sessions"
    THEN LET fields == SnapshotFields(handler.r, Val(handler.out.body))
         IN  [f \in DOMAIN fields |-> row[f]] = fields
    ELSE LET body == Val(handler.out.body)
         IN  /\ row.sessionName = body.sessionName
             /\ row.participants = body.participants
             /\ row.allocations = body.allocations
             /\ row.totals = body.totals

\* C16: once two concurrent finalize calls for session 1 have both
\* completed, the session has exactly one snapshot, and it is in all its
\* fields the snapshot of one of the two calls.
C16_LastWriterWins ==
    BothCompleted =>
        /\ Cardinality(RowsOf(history, 1)) = 1
        /\ \A row \in RowsOf(history, 1) :
              \E h \in DOMAIN handlers : SnapshotOfCall(row, handlers[h])

\* C17: when the snapshot write of a finalize call fails, the call is
\* answered with a server error that carries no allocations, and the stored
\* snapshots are left as they were.
C17_WriteFailureSurfaced ==
    [][\A h \in DOMAIN handlers :
          (handlers[h].write # "failed" /\ handlers'[h].write = "failed")
             => /\ handlers'[h].res.status = 500
                /\ handlers'[h].res.body = None
                /\ history' = history]_vars

\* The entries that a history query returned, the time of an entry and of
\* a stored snapshot, and whether the query asked for all: by the parameter
\* in sessions.ts, by the route (GET /history, whose response states no
\* limit) in uploads.ts.
Returned ==
    IF "entries" \in DOMAIN Val(res.body) THEN Val(res.body).entries
    ELSE Val(res.body).sessions

EntryTime(e) == IF "finalizedAt" \in DOMAIN e THEN e.finalizedAt ELSE e.createdAt

SnapshotTime(row) ==
    IF revision = "sessions" THEN row.finalizedAt ELSE row.createdAt

AllRequested ==
    IF revision = "sessions" THEN req.all \in {"1", "true"}
    ELSE "limit" \notin DOMAIN Val(res.body)

\* The stored snapshots that match the identity the query is about: the
\* participant asked for, else the caller (as participant, or as creator
\* in sessions.ts).
Matching ==
    LET target == IF "participantId" \in DOMAIN Val(res.body)
                  THEN Val(res.body).participantId
                  ELSE UserTable[req.caller].uniqueId
    IN  {row \in history :
            IF revision = "sessions"
            THEN target \in row.participantUniqueIds \/ row.creatorId = req.caller
            ELSE target \in SeqRange(row.participantUniqueIds)}

NewestFirst ==
    \A i, j \in 1..Len(Returned) :
        i < j => EntryTime(Returned[i]) >= EntryTime(Returned[j])

\* The entries are matching snapshots, each once, and no matching snapshot
\* that is left out is newer than one that is returned.
NewestMatching ==
    /\ \A k \in 1..Len(Returned) :
          \E row \in Matching :
              /\ row.sessionId = Returned[k].sessionId
              /\ SnapshotTime(row) = EntryTime(Returned[k])
    /\ \A i, j \in 1..Len(Returned) :
          Returned[i].sessionId = Returned[j].sessionId => i = j
    /\ \A row \in Matching :
          (\A k \in 1..Len(Returned) : Returned[k].sessionId # row.sessionId)
              => \A k \in 1..Len(Returned) : SnapshotTime(row) <= EntryTime(Returned[k])

\* The limit parameter is absent or a positive number.
UsableLimit == Has(req.limit) => (~Val(req.limit).nan /\ Val(req.limit).num > 0)

\* As many entries as the limit allows: the limit asked for, default when
\* none is, and cap at most.
LimitedTo(default, cap) ==
    LET asked == IF Has(req.limit) THEN Trunc(Val(req.limit)) ELSE default
        limit == IF asked < cap THEN asked ELSE cap
    IN  Len(Returned) = IF limit < Cardinality(Matching) THEN limit
                        ELSE Cardinality(Matching)

SummaryTotals == {None, Some(0), Some(2500), Some(4000), Some(99990)}

\* The model's output with its summary total replaced and nothing else
\* changed.
WithSummaryTotal(text, total) ==
    [text EXCEPT !.content.raw.summary =
        Some([Val(text.content.raw.summary) EXCEPT !.grandTotal = total])]

\* In this step call c returns a result that comes from the provider.
ReturnsProviderResult(c) ==
    /\ parse[c].pc = "waiting"
    /\ parse'[c].pc = "done"
    /\ Val(parse'[c].result).source = "gemini"

\* C19: whenever parseReceipt returns a result that comes from the provider,
\* its summary.grandTotal is the sum of the returned items' totalPrice,
\* rounded to two decimals, and the output with any other summary total of
\* the model in its place would give the same grandTotal.
C19_GrandTotalRecomputed ==
    [][\A c \in DOMAIN parse :
          ReturnsProviderResult(c) =>
             LET result == Val(parse'[c].result)
                 text == Val(parse[c].response).text
             IN  /\ result.summary.grandTotal =
                       Round2(SumSeq([k \in 1..Len(result.items) |->
                                          result.items[k].totalPrice]), 1)
                 /\ \A total \in SummaryTotals :
                       LET other == safeParseJson(WithSummaryTotal(text, total), fp)
                       IN  /\ other.ok
                           /\ Val(other.data).summary.grandTotal =
                                 result.summary.grandTotal
                           /\ Val(other.data).items = result.items]_vars

\* C19's case: a call returned the receipt whose model stated a summary
\* total that is not the sum of its lines, and the grandTotal returned is
\* not the model's.
C19_Witness ==
    \E c \in DOMAIN parse :
        /\ parse[c].pc = "done"
        /\ Val(parse[c].result).source = "gemini"
        /\ Len(Val(parse[c].result).items) = Len(Val(ReceiptB.items))
        /\ Val(parse[c].result).items =
              Val(safeParseJson(Text(TRUE, "object", ReceiptB), fp).data).items
        /\ Val(ReceiptB.summary).grandTotal
              # Some(Val(parse[c].result).summary.grandTotal)

\* C20: every line item of a result that parseReceipt returned has a
\* totalPrice that is its own unitPrice times its own quantity, rounded to
\* two decimals.
C20_TotalIsUnitTimesQuantity ==
    \A c \in DOMAIN parse :
        (parse[c].pc = "done" /\ Has(parse[c].result)) =>
            LET items == Val(parse[c].result).items
            IN  \A k \in 1..Len(items) :
                    items[k].totalPrice =
                        Round2(items[k].unitPrice * items[k].quantity, 1)

\* C21: every line item of a result that parseReceipt returned has a
\* quantity greater than zero.
C21_QuantityPositive ==
    \A c \in DOMAIN parse :
        (parse[c].pc = "done" /\ Has(parse[c].result)) =>
            LET items == Val(parse[c].result).items
            IN  \A k \in 1..Len(items) : items[k].quantity > 0

\* The candidate fields of a decoded output in the order of the claim: the
\* summary's, then the top level's, then each item's.
CurrencyCandidates(raw) ==
    LET summary == Val(raw.summary)
        items == Val(raw.items)
    IN  <<summary.currency, summary.currencyCode, summary.currency_code,
          summary.isoCurrency, raw.currency, raw.currencyCode, raw.currency_code>>
        \o <<items[1].currency, items[1].currencyCode, items[1].currency_code>>

\* The code of the first candidate that the rule reads, the default when
\* it reads none.
FirstRead(raw, rule(_)) ==
    LET fields == CurrencyCandidates(raw)
        hits == {k \in 1..Len(fields) : Has(rule(fields[k]))}
    IN  IF hits = {} THEN DEFAULT_CURRENCY_CODE
        ELSE Val(rule(fields[CHOOSE k \in hits : \A j \in hits : k <= j]))

\* The first of the readings that gives a code.
FirstOf(readings) ==
    LET hits == {k \in 1..Len(readings) : Has(readings[k])}
    IN  IF hits = {} THEN None
        ELSE readings[CHOOSE k \in hits : \A j \in hits : k <= j]

ThreeLetters(str) == IF IsThreeLetterCode(str) THEN Some(str) ELSE None

\* A value read as the claim says: a symbol or name of the table, or three
\* letters, in any letter case, spaces around it aside.
ListedOrCode(value) ==
    IF ~Has(value) \/ trim(Val(value)) = <<>> THEN None
    ELSE LET token == trim(Val(value))
         IN  FirstOf(<<IsoOf(token), IsoOf(toUpperCase(token)),
                       ThreeLetters(toUpperCase(token))>>)

\* A value read as above, or else by its letters alone, or else by its
\* first or its last character.
ListedCodeOrPart(value) ==
    IF ~Has(value) \/ trim(Val(value)) = <<>> THEN None
    ELSE LET token == trim(Val(value))
             letters == toUpperCase(SelectSeq(token, LAMBDA c : c \in AsciiLetters))
         IN  FirstOf(<<ListedOrCode(value),
                       IsoOf(letters), ThreeLetters(letters),
                       IsoOf(<<token[1]>>), IsoOf(<<token[Len(token)]>>)>>)

CurrencyAnswered == res.status = 200 /\ Has(res.body)

Reference(r) ==
    Val(Computed(Request(1, Some(1), r.participants, r.items), 0, fp).body)

\* C23: the allocations and totals of every successful finalize call are
\* those of its participants list and its items list alone: they are what
\* the same lists give for session 1, at any time, whatever the call's
\* session, the snapshots stored and the calls made before; so two calls
\* with the same lists return the same allocations and totals.
C23_Reproducible ==
    Succeeded =>
        /\ Allocations = Reference(req).allocations
        /\ ResTotals = Reference(req).totals

\* C23's case: a call for session 3 succeeded after other calls, while a
\* snapshot of session 1 is stored.
C23_Witness ==
    /\ Succeeded
    /\ req.sessionId = Some(3)
    /\ now >= 2
    /\ \E row \in history : row.sessionId = 1

\* The shareAmount of the allocations of item id, in the order of the
\* response.
SharesOf(id) ==
    LET own == SelectSeq(Allocations, LAMBDA a : a.itemId = id)
    IN  [k \in 1..Len(own) |-> own[k].shareAmount]

\* C24: in every successful finalize, for every item split equal over N
\* assignees, each of the first N - 1 shares is unitPrice x quantity / N
\* rounded to the cent, the last is unitPrice x quantity less the shares
\* before it, rounded to the cent, and when the item's total is a whole
\* number of cents divisible by N, all the shares are that total over N.
C24_EqualSplitShares ==
    Succeeded =>
        \A i \in ItemIndices :
            (SplitModeOf(req.items[i]) = "equal" /\ OnlyOfItsId(i)) =>
                LET raw == req.items[i]
                    unit == UnitPriceOf(raw)
                    n == Len(Val(raw.assignedTo))
                    shares == SharesOf(raw.id)
                    before == SumSeq(SubSeq(shares, 1, n - 1))
                IN  /\ Len(shares) = n
                    /\ \A k \in 1..(n - 1) :
                          shares[k] = Round2(unit.num * raw.quantity, unit.den * n)
                    /\ shares[n] = Round2(unit.num * raw.quantity - before * unit.den,
                                          unit.den)
                    /\ (unit.num * raw.quantity) % (10 * n * unit.den) = 0
                          => \A k \in 1..n :
                                shares[k] * n * unit.den = unit.num * raw.quantity

\* C25: in every successful finalize, for every item split by count, each
\* participant of its units map has exactly one allocation of the item,
\* whose shareUnits is their units and whose shareAmount is units x
\* unitPrice rounded to the cent, and the item has no other allocation.
C25_CountSplitShares ==
    Succeeded =>
        \A i \in ItemIndices :
            (SplitModeOf(req.items[i]) = "count" /\ OnlyOfItsId(i)) =>
                LET raw == req.items[i]
                    unit == UnitPriceOf(raw)
                    counts == Val(raw.perPersonCount)
                    own == SelectSeq(Allocations, LAMBDA a : a.itemId = raw.id)
                IN  /\ Len(own) = Len(counts)
                    /\ \A k \in 1..Len(counts) :
                          LET theirs == {j \in 1..Len(own) :
                                            own[j].participantId = counts[k].pid}
                          IN  /\ Cardinality(theirs) = 1
                              /\ \A j \in theirs :
                                    /\ own[j].shareUnits = counts[k].units
                                    /\ own[j].shareAmount =
                                          Round2(counts[k].units * unit.num, unit.den)

\* The sum of shareAmount over the allocations of participant pid.
OwedBy(pid) ==
    SumSeq([k \in 1..Len(Allocations) |->
              IF Allocations[k].participantId = pid
              THEN Allocations[k].shareAmount ELSE 0])

\* C26: in every successful finalize, totals.byItem has exactly one entry
\* for each element of the items list, with the element's name and kind and
\* the sum of its allocations, and totals.byParticipant has exactly one
\* entry for each participant of the roster, whose amountOwed is the sum of
\* the participant's allocations (zero without any).
C26_OneEntryEach ==
    Succeeded =>
        /\ Len(ResTotals.byItem) = Len(req.items)
        /\ \A i \in 1..Len(req.items) :
              LET entries == {j \in 1..Len(ResTotals.byItem) :
                                ResTotals.byItem[j].itemId = req.items[i].id}
              IN  /\ req.items[i].isObject
                  /\ Cardinality(entries) = 1
                  /\ \A j \in entries :
                        /\ ResTotals.byItem[j].name = req.items[i].name
                        /\ ResTotals.byItem[j].kind = req.items[i].kind
                        /\ ResTotals.byItem[j].total = ShareSum(req.items[i].id)
        /\ Len(ResTotals.byParticipant) = Len(req.participants)
        /\ \A k \in 1..Len(req.participants) :
              LET entries == {j \in 1..Len(ResTotals.byParticipant) :
                                ResTotals.byParticipant[j].uniqueId =
                                    req.participants[k].uniqueId}
              IN  /\ Cardinality(entries) = 1
                  /\ \A j \in entries :
                        ResTotals.byParticipant[j].amountOwed =
                            OwedBy(req.participants[k].uniqueId)

\* The descriptions of the session's lines and the names of its items, by
\* lineIndex.
LinesOf(sessionId) ==
    {<<l.lineIndex, l.description>> : l \in {x \in receiptLine : x.sessionId = sessionId}}

ItemsOf(sessionId) ==
    {<<i.lineIndex, i.name>> : i \in {x \in receiptItem : x.sessionId = sessionId}}

\* What a whole receipt leaves in the two tables.
Whole(parsed) == {<<k - 1, parsed[k]>> : k \in 1..Len(parsed)}

\* C27: in every state that a request can read, the session's lines and
\* items are those of one whole parse, or none, its entry counts just those
\* lines, and an entry that is COMPLETED has the lines and items of a parse;
\* a step by which the persistence fails leaves the three tables as they
\* were.
C27_PersistenceAtomic ==
    /\ [](\A s \in DOMAIN SessionTable :
            /\ LinesOf(s) = ItemsOf(s)
            /\ \/ LinesOf(s) = {}
               \/ \E o \in GeminiOutcomes : Has(o) /\ LinesOf(s) = Whole(Val(o))
            /\ \A row \in ParseRowsOf(receiptParse, s) :
                  /\ row.linesCount = Cardinality(LinesOf(s))
                  /\ row.status = "COMPLETED" => LinesOf(s) # {})
    /\ [][\A h \in DOMAIN handlers :
            (handlers[h].pc = "persist" /\ handlers'[h].pc = "failed")
                => UNCHANGED <<receiptParse, receiptLine, receiptItem>>]_vars

\* C27's case: a transaction that had deleted the old lines and written a
\* new one failed, while the tables hold the whole earlier parse.
C27_Witness ==
    \E h \in DOMAIN handlers :
        /\ handlers[h].pc = "failed"
        /\ handlers[h].idx > 4
        /\ handlers[h].parsed = <<"Cola", "Tea">>
        /\ LinesOf(handlers[h].r.sessionId) = Whole(<<"Bread">>)
        /\ ItemsOf(handlers[h].r.sessionId) = Whole(<<"Bread">>)

ReturnedSessions ==
    LET body == Val(res.body)
    IN  IF "entries" \in DOMAIN body
        THEN {body.entries[k].sessionId : k \in 1..Len(body.entries)}
        ELSE IF "sessions" \in DOMAIN body
        THEN {body.sessions[k].sessionId : k \in 1..Len(body.sessions)}
        ELSE IF body.exists THEN {body.sessionId}
        ELSE {}

\* The stored snapshot belongs to a session that the user created or whose
\* stored participant ids include the user's uniqueId.
RelatedTo(row, user) ==
    \/ (IF revision = "sessions" THEN row.creatorId ELSE row.ownerUserId) = user
    \/ /\ user \in DOMAIN UserTable
       /\ UserTable[user].uniqueId \in
             (IF revision = "sessions" THEN row.participantUniqueIds
              ELSE SeqRange(row.participantUniqueIds))

\* C29: every snapshot that a history query (a list query or the by-session
\* query) returns to a requester belongs to a session that the requester
\* created or whose stored participant ids include the requester's
\* uniqueId.
C29_OwnSnapshotsOnly ==
    res.status = 200 =>
        \A s \in ReturnedSessions :
            \A row \in history : row.sessionId = s => RelatedTo(row, req.caller)

\* The statuses of the session's parse entry.
StatusOf(rows, sessionId) == {row.status : row \in ParseRowsOf(rows, sessionId)}

\* The handler's request has set the entry to PROCESSING and has not yet
\* been answered.
Processing(handler) == handler.pc \in {"provider", "persist", "failed"}

\* A database call of the handler's request has thrown: the outer catch
\* has answered it.
WriteFailed(handler) == handler.pc = "done" /\ handler.res = Error(500, "Server error")

AnsweredAlreadyProcessing(handler) ==
    /\ handler.pc = "done"
    /\ handler.res.status = 200
    /\ Val(handler.res.body).message = "Already processing"

\* The step answers request h, which had set the entry to PROCESSING, and
\* no database call of h has thrown.
AnswersProcessing(h) ==
    /\ Processing(handlers[h])
    /\ handlers'[h].pc = "done"
    /\ ~WriteFailed(handlers'[h])

\* C30: a parse request that has set the session's parse status to
\* PROCESSING sets it to COMPLETED or FAILED before it responds, if none of
\* its database calls throws; so once every request for the session has
\* responded, none with a thrown database call, the status is not
\* PROCESSING, and a request without force is answered "Already processing"
\* only while another request has not responded (or one has thrown).
C30_ProcessingEnds ==
    /\ [][\A h \in DOMAIN handlers :
            AnswersProcessing(h) =>
                StatusOf(receiptParse', handlers[h].r.sessionId)
                    \subseteq {"COMPLETED", "FAILED"}]_vars
    /\ [](\A s \in DOMAIN SessionTable :
            (\A h \in DOMAIN handlers :
                handlers[h].r.sessionId = s =>
                    /\ handlers[h].pc \in {"idle", "done"}
                    /\ ~WriteFailed(handlers[h]))
                => "PROCESSING" \notin StatusOf(receiptParse, s))
    /\ [][\A h \in DOMAIN handlers :
            (~AnsweredAlreadyProcessing(handlers[h])
             /\ AnsweredAlreadyProcessing(handlers'[h]))
                => \E g \in DOMAIN handlers \ {h} :
                      /\ handlers[g].r.sessionId = handlers'[h].r.sessionId
                      /\ Processing(handlers[g]) \/ WriteFailed(handlers[g])]_vars

\* C30's case: every request for session 1 has responded, one with "Parse
\* failed" and one, sent without force, with the completed parse, and the
\* entry is COMPLETED or FAILED.
C30_Witness ==
    /\ \A h \in DOMAIN handlers :
          handlers[h].pc = "done" /\ handlers[h].r.sessionId = 1
    /\ \E h \in DOMAIN handlers : handlers[h].res = Error(500, "Parse failed")
    /\ \E h \in DOMAIN handlers :
          /\ ~handlers[h].r.force
          /\ handlers[h].res.status = 200
          /\ Val(handlers[h].res.body).status = "COMPLETED"
    /\ StatusOf(receiptParse, 1) \subseteq {"COMPLETED", "FAILED"}
    /\ StatusOf(receiptParse, 1) # {}
====
